---------------------------- MODULE Spec2Model ----------------------------
(***************************************************************************)
(* A model of the capture pipeline of ai-memory:                           *)
(*   - the segmented audit log writer (package audit, AuditLogger),        *)
(*   - the shard iterator and the streamer (package audit, Streamer),      *)
(*   - the session watcher (package watcher, SessionWatcher),              *)
(*   - the capture daemon (package daemon, CaptureDaemon).                 *)
(*                                                                         *)
(* File contents are byte sequences.  A byte is a natural number; NL is    *)
(* the newline.  The k-th line handed to the writer carries the payload    *)
(* byte k, so every line of a run can be told from every other.            *)
(* Shards are written uncompressed (compressShards = false).               *)
(***************************************************************************)
EXTENDS Integers, Sequences, FiniteSets, TLC

VARIABLES
    \* ---- the audit directory and the AuditLogger --------------------------
    clock,          \* wall clock in seconds (time.Now() of rotateShard)
    shardFiles,     \* names (timestamps) of the shard files in the directory
    disk,           \* disk[n]: the bytes of shard file n as a reader sees them
    currentShard,   \* a.currentShard: path, size, bufio buffer, file closed
    rotationMutex,  \* holder of a.rotationMutex, or NoOne
    wpc,            \* wpc[w]: where writer w is inside WriteRawLine
    wline,          \* wline[w]: the argument of w's WriteRawLine call
    wshard,         \* wshard[w]: the _audit_shard WriteEvent put in w's record
    nWrites,        \* number of WriteRawLine calls begun
    written,        \* history: the lines whose WriteRawLine returned nil
    created,        \* history: per rotation, whether os.Create made a new file
    logger,         \* "absent" before NewAuditLogger, then "open", then "closed"
    \* ---- one Streamer and its ShardIterator -------------------------------
    spc,            \* where Stream is
    follow,         \* the follow argument of Stream
    itShards,       \* it.shards
    itIdx,          \* it.currentIndex
    rdPath,         \* the shard the open ShardReader reads, or NoShard
    rdOff,          \* the open reader's position in that shard
    tailPath,       \* shardPath of the running tailShard call
    delivered,      \* history: the lines handed to the handler, in order
    tailed,         \* history: the shards tailShard has opened, in order
    loggerAtStart,  \* history: the logger's state when Stream was called
    stopCalled,     \* s.stopCh is closed: Streamer.Stop has been called
    handlerErrs,    \* history: number of handler calls that returned an error
    \* ---- the CaptureDaemon after Start ------------------------------------
    eventQueue,     \* d.eventQueue: the buffered channel's content
    queueClosed,    \* close(d.eventQueue) has run
    ctxDone,        \* d.cancel() has run: d.ctx.Done() is closed
    watcherStopCh,  \* the watcher's stopCh is closed
    metrics,        \* d.metrics: received, processed, dropped
    hpc,            \* hpc[g]: where watcher goroutine g is inside handleEvent
    hev,            \* hev[g]: the event of g's handleEvent call
    nEvents,        \* number of handleEvent calls begun
    ret,            \* history: ret[e] is what handleEvent returned for event e
    wkpc,           \* wkpc[k]: worker k runs processEvents or has exited
    batch,          \* batch[k]: worker k's pending batch
    flushed,        \* history: the events whose audit record reached the logger
    flushLog,       \* history: every write of an event by flushBatch, and its cause
    dpc,            \* where Stop is
    \* ---- daemon processes sharing one audit directory ---------------------
    pidFile,        \* daemon.pid: whether it exists and the pid it holds
    alive,          \* the daemon processes that are alive
    startpc,        \* startpc[d]: where process d is in Start / Stop
    \* ---- the SessionWatcher and the directory it watches ------------------
    files,          \* files[p]: the session file p, its state and its bytes
    nAppends,       \* number of appends made to session files
    fsEvents,       \* w.watcher.Events: notifications not yet received
    watchedPaths,   \* w.watchedPaths[dir]
    activeSessions, \* w.activeSessions[p]: the tail of p, or NoTail
    tails,          \* the SessionTail objects allocated so far
    mu,             \* the goroutine holding w.mu for writing, or NoOne
    stopCh,         \* w.stopCh is closed
    gpc,            \* gpc[g]: where goroutine g is
    gpath,          \* gpath[g]: the path argument of g's current call
    gtodo,          \* gtodo[g]: what is left of the range loop g runs
    gsess,          \* gsess[g]: the *SessionTail g works on
    gsize,          \* gsize[g]: info.Size() as startTailing read it
    gpos,           \* gpos[g]: position of the reader inside readNewLines
    gret,           \* gret[g]: where g's readNewLines call returns to
    gev,            \* gev[g]: the event g passes to notifyHandlers
    events,         \* history: the events the handlers received, in order
    nScans,         \* number of WatchDirectory calls begun
    matched,        \* history: what the last WatchDirectory's glob matched
    \* ---- the status file, its writer and a GetStatus reader ---------------
    inodes,         \* inodes[i]: the bytes of the i-th file created
    dirEntry,       \* dirEntry[name]: the inode the name refers to, or NoFile
    stpc,           \* where the status writer is inside writeStatusFile
    stfd,           \* the inode the writer's os.WriteFile has open
    nStatus,        \* number of writeStatusFile calls begun
    gspc,           \* where the GetStatus call is
    gsfd,           \* the inode the reader's os.ReadFile has open
    gsSeen,         \* history: what GetStatus calls have read
    \* ---- one call of FilteredStream's wrapped handler ---------------------
    fpc,            \* where the wrapped handler is
    ffilter,        \* the StreamFilter given to FilteredStream
    fline,          \* the line Stream passes to the wrapped handler
    fout,           \* what the wrapped handler did with the line
    \* ---- ShardIterators over a directory that no longer changes ------------
    iters,          \* iters[i]: the fields of the i-th ShardIterator, made or not
    itOut,          \* history: itOut[i] is the lines Next has returned on iterator i
    itEofs,         \* history: itEofs[i] counts the calls of Next that returned io.EOF
    \* ---- the life of one CaptureDaemon: Start, Stop and Run calls ----------
    lpc,            \* where the goroutine that calls Start, Stop and Run is
    lrun,           \* the call under way is Run
    lstate,         \* history: the lifecycle state the calls so far have led to
    lctx,           \* d.cancel() has run: d.ctx is cancelled
    lstopCh,        \* the watcher's stopCh is closed
    lqueue,         \* d.eventQueue is closed
    lpid,           \* the PID file exists and holds this process's pid
    lrunning,       \* the tasks Start launched that have not returned
    nCalls,         \* number of Start, Stop and Run calls begun
    \* ---- file handles of the AuditLogger -----------------------------------
    openShards,     \* the shard files open for writing: the k-th file created is k
    writerErr,      \* the bufio.Writer of the current shard holds a write error
    faulty,         \* the file system may fail a write, a close or a create
    \* ---- the daemon's logger during Stop -----------------------------------
    loggerClosed,   \* Stop has called d.auditLogger.Close()
    \* ---- the writeStatus task of the daemon --------------------------------
    snpc,           \* where the writeStatus task is ("none": the task is left out)
    snap,           \* the counter values json.Marshal has read so far
    statusMetrics,  \* history: the metrics of every status file written
    nSnaps,         \* number of writeStatusFile calls begun
    \* ---- the configuration of the AuditLogger ------------------------------
    maxShardSize    \* a.maxShardSize, the size from which WriteRawLine rotates

logVars == <<clock, shardFiles, disk, currentShard, rotationMutex, wpc, wline, wshard,
             nWrites, written, created, logger>>
streamVars == <<spc, follow, itShards, itIdx, rdPath, rdOff, tailPath, delivered,
                tailed, loggerAtStart, stopCalled, handlerErrs>>
daemonVars == <<eventQueue, queueClosed, ctxDone, watcherStopCh, metrics, hpc,
                hev, nEvents, ret, wkpc, batch, flushed, flushLog, dpc>>
pidVars == <<pidFile, alive, startpc>>
watcherVars == <<files, nAppends, fsEvents, watchedPaths, activeSessions, tails,
                 mu, stopCh, gpc, gpath, gtodo, gsess, gsize, gpos, gret, gev,
                 events, nScans, matched>>
statusVars == <<inodes, dirEntry, stpc, stfd, nStatus, gspc, gsfd, gsSeen>>
filterVars == <<fpc, ffilter, fline, fout>>
iterVars == <<iters, itOut, itEofs>>
lifeVars == <<lpc, lrun, lstate, lctx, lstopCh, lqueue, lpid, lrunning, nCalls>>
handleVars == <<openShards, writerErr, faulty>>
shutdownVars == <<loggerClosed>>
snapshotVars == <<snpc, snap, statusMetrics, nSnaps>>
configVars == <<maxShardSize>>
vars == <<logVars, streamVars, daemonVars, pidVars, watcherVars, statusVars, filterVars, iterVars, lifeVars, handleVars, shutdownVars, snapshotVars, configVars>>
nonLogVars == <<daemonVars, pidVars, watcherVars, statusVars, filterVars, iterVars, lifeVars, handleVars, shutdownVars, snapshotVars, configVars>>
nonLogNorHandleVars == <<daemonVars, pidVars, watcherVars, statusVars, filterVars, iterVars, lifeVars, shutdownVars, snapshotVars, configVars>>
nonDaemonVars == <<logVars, streamVars, pidVars, watcherVars, statusVars, filterVars, iterVars, lifeVars, handleVars, shutdownVars, snapshotVars, configVars>>
nonDaemonNorShutdownVars == <<logVars, streamVars, pidVars, watcherVars, statusVars, filterVars, iterVars, lifeVars, handleVars, snapshotVars, configVars>>
nonPidVars == <<logVars, streamVars, daemonVars, watcherVars, statusVars, filterVars, iterVars, lifeVars, handleVars, shutdownVars, snapshotVars, configVars>>
nonLogNorPidVars == <<daemonVars, watcherVars, statusVars, filterVars, iterVars, lifeVars, handleVars, shutdownVars, snapshotVars, configVars>>
nonWatcherVars == <<logVars, streamVars, daemonVars, pidVars, statusVars, filterVars, iterVars, lifeVars, handleVars, shutdownVars, snapshotVars, configVars>>
nonStatusVars == <<logVars, streamVars, daemonVars, pidVars, watcherVars, filterVars, iterVars, lifeVars, handleVars, shutdownVars, snapshotVars, configVars>>
nonFilterVars == <<logVars, streamVars, daemonVars, pidVars, watcherVars, statusVars, iterVars, lifeVars, handleVars, shutdownVars, snapshotVars, configVars>>
nonIterVars == <<logVars, streamVars, daemonVars, pidVars, watcherVars, statusVars, filterVars, lifeVars, handleVars, shutdownVars, snapshotVars, configVars>>
nonLifeVars == <<logVars, streamVars, daemonVars, pidVars, watcherVars, statusVars, filterVars, iterVars, handleVars, shutdownVars, snapshotVars, configVars>>
nonHandleVars == <<logVars, streamVars, daemonVars, pidVars, watcherVars, statusVars, filterVars, iterVars, lifeVars, shutdownVars, snapshotVars, configVars>>
nonShutdownVars == <<logVars, streamVars, daemonVars, pidVars, watcherVars, statusVars, filterVars, iterVars, lifeVars, handleVars, snapshotVars, configVars>>
nonSnapshotVars == <<logVars, streamVars, daemonVars, pidVars, watcherVars, statusVars, filterVars, iterVars, lifeVars, handleVars, shutdownVars, configVars>>
nonConfigVars == <<logVars, streamVars, daemonVars, pidVars, watcherVars, statusVars, filterVars, iterVars, lifeVars, handleVars, shutdownVars, snapshotVars>>

-----------------------------------------------------------------------------
(* Bounds *)
MaxWrites == 3
MaxClock == 2
WriterBufSize == 3
MaxShardSize == 2
MaxEvents == 3
QueueCap == 1
BatchSize == 2
MaxAppends == 2
MaxScans == 2
MaxStatusWrites == 3
DocLen == 2
MaxTime == 2
MaxShardLines == 2
MaxEofCalls == 2
MaxCalls == 3

\* Bound of the exploration: status files written.
MaxSnapshots == 2

NL == 0
NoOne == "none"
NoShard == -1
Writers == {"w1", "w2"}
Names == 0..MaxClock
WorkerCount == 3
Workers == 1..WorkerCount
Producers == {"watchLoop", "tailLoop"}
Events == 1..MaxEvents
Daemons == {1, 2}
Paths == {1, 2}
NoTail == 0
NoSid == 0
NoFile == 0
Goroutines == {"main", "watchLoop", "tailLoop"}
Iterators == {1, 2}
LoopTasks == {"watchLoop", "tailLoop"}
WorkerTasks == {"processEvents", "writeStatus"}

-----------------------------------------------------------------------------
(* Helpers on byte sequences and sets *)

Drop(s, n) == IF n >= Len(s) THEN <<>> ELSE SubSeq(s, n + 1, Len(s))
Take(s, n) == IF n >= Len(s) THEN s ELSE SubSeq(s, 1, n)
HasNL(s) == \E i \in 1..Len(s) : s[i] = NL
FirstNL(s) == CHOOSE i \in 1..Len(s) : s[i] = NL /\ \A j \in 1..(i - 1) : s[j] # NL

\* sort.Strings over the glob result: names are timestamps, so ascending order
RECURSIVE SortedSeq(_)
SortedSeq(S) ==
    IF S = {} THEN <<>>
    ELSE LET m == CHOOSE x \in S : \A y \in S : x <= y
         IN <<m>> \o SortedSeq(S \ {m})

-----------------------------------------------------------------------------
(* The AuditLogger *)

\* WriteRawLine's newline rule: a non-empty line that does not end in a
\* newline gets one; an empty line is written as it is.
WithNewline(line) ==
    IF Len(line) > 0 /\ line[Len(line)] # NL THEN Append(line, NL) ELSE line

\* bufio.Writer.Write(p) on a buffer holding buf: what reaches the file and
\* what stays buffered.  While p does not fit, an empty buffer passes p
\* straight through and a non-empty one is filled up and flushed.
RECURSIVE BufioWrite(_, _)
BufioWrite(buf, p) ==
    IF Len(p) > WriterBufSize - Len(buf)
    THEN IF Len(buf) = 0
         THEN [file |-> p, buf |-> <<>>]
         ELSE LET n == WriterBufSize - Len(buf)
                  rest == BufioWrite(<<>>, Drop(p, n))
              IN [file |-> buf \o Take(p, n) \o rest.file, buf |-> rest.buf]
    ELSE [file |-> <<>>, buf |-> buf \o p]

\* The argument of the k-th WriteRawLine call.
LineInputs(k) == {<<k>>, <<k, NL>>, <<>>}

\* WriteRawLine, lines 72-76: take the mutex and decide whether to rotate.
RotationNeeded == currentShard.size >= maxShardSize

\* A Lock() that lets every caller through.
MutexIgnored == TRUE

\* a.rotationMutex.Lock() returns: nobody holds the mutex.
MutexFree == rotationMutex = NoOne

\* WriteEvent, lines 106-114: the record gets the name of a.currentShard as
\* it is read here, before WriteRawLine takes the mutex, and is marshalled.
WriteEventBegin(w) ==
    /\ wpc[w] = "idle"
    /\ logger = "open"
    /\ nWrites < MaxWrites
    /\ wshard' = [wshard EXCEPT ![w] = currentShard.path]
    /\ wpc' = [wpc EXCEPT ![w] = "event"]
    /\ UNCHANGED <<nonLogVars, clock, shardFiles, disk, currentShard, rotationMutex,
                   wline, nWrites, written, created, logger, streamVars>>

\* The argument of the k-th WriteRawLine call when WriteEvent makes it:
\* json.Marshal's output, which has no newline.
EventLine(k) == <<k>>

WriteRawLineCall(w) ==
    /\ wpc[w] \in {"idle", "event"}
    /\ nWrites < MaxWrites
    /\ MutexFree
    /\ IF wpc[w] = "event"
       THEN /\ wline' = [wline EXCEPT ![w] = EventLine(nWrites + 1)]
            /\ wshard' = wshard
       ELSE /\ \E line \in LineInputs(nWrites + 1) : wline' = [wline EXCEPT ![w] = line]
            /\ wshard' = [wshard EXCEPT ![w] = NoShard]
    /\ nWrites' = nWrites + 1
    /\ rotationMutex' = w
    /\ wpc' = [wpc EXCEPT ![w] = IF RotationNeeded THEN "rotateClose" ELSE "write"]
    /\ UNCHANGED <<nonLogVars, clock, shardFiles, disk, currentShard, written, created,
                   logger, streamVars>>

\* WriteRawLine is called on a logger that has not been closed.
WriteBegin(w) ==
    /\ logger = "open"
    /\ WriteRawLineCall(w)

\* WriteRawLine is called after Close: nothing in the code refuses the call.
WriteAfterClose(w) ==
    /\ logger = "closed"
    /\ WriteRawLineCall(w)

\* A Flush that leaves the buffer as it is.
FlushNothing == [file |-> <<>>, buf |-> currentShard.buf]

\* ShardWriter.Flush, lines 211-219: the buffered bytes go to the file.
ShardFlush == [file |-> currentShard.buf, buf |-> <<>>]

\* The results of an operation of the file system.
IoOutcomes == IF faulty THEN {"nil", "err"} ELSE {"nil"}

\* What a Flush of the current shard can do.  bufio's Flush returns the
\* error the writer holds, writes nothing when nothing is buffered, and on
\* a failing write keeps the error and the bytes that were not written; a
\* write to a closed file fails.
FlushOutcomes ==
    LET buf == currentShard.buf
    IN IF writerErr
       THEN {[file |-> <<>>, buf |-> buf, err |-> TRUE]}
       ELSE IF buf = <<>>
       THEN {[file |-> <<>>, buf |-> <<>>, err |-> FALSE]}
       ELSE IF currentShard.closed
       THEN {[file |-> <<>>, buf |-> buf, err |-> TRUE]}
       ELSE {[file |-> ShardFlush.file, buf |-> ShardFlush.buf, err |-> FALSE]}
            \cup {[file |-> Take(buf, k), buf |-> Drop(buf, k), err |-> TRUE] :
                      k \in IF faulty THEN 0..(Len(buf) - 1) ELSE {}}

\* The handle the logger holds on its current shard: the files are numbered
\* in the order os.Create returned them.
CurrentHandle == Len(created)

\* A Close that leaves the file open.
LeaveOpen(h) == openShards

\* os.File.Close, line 231: the handle is released.
FileClose(h) == openShards \ {h}

\* ShardWriter.Close of the current shard, lines 222-232, returning res: an
\* error of the flush is returned before the file is closed; the file is
\* closed whatever os.File.Close returns, which is an error for certain on a
\* file that is closed already.
ShardClose(res) ==
    \E f \in FlushOutcomes :
        /\ disk' = [disk EXCEPT ![currentShard.path] = @ \o f.file]
        /\ IF f.err
           THEN /\ res = "err"
                /\ currentShard' = [currentShard EXCEPT !.buf = f.buf]
                /\ writerErr' = TRUE
                /\ openShards' = openShards
           ELSE /\ res \in (IF currentShard.closed THEN {"err"} ELSE IoOutcomes)
                /\ currentShard' = [currentShard EXCEPT !.buf = f.buf, !.closed = TRUE]
                /\ writerErr' = writerErr
                /\ openShards' = FileClose(CurrentHandle)

\* rotateShard, lines 120-124: an error of Close is returned, and
\* WriteRawLine returns it through its deferred Unlock.
RotateClose(w) ==
    /\ wpc[w] = "rotateClose"
    /\ \E res \in {"nil", "err"} :
           /\ ShardClose(res)
           /\ IF res = "nil"
              THEN /\ wpc' = [wpc EXCEPT ![w] = "rotateCreate"]
                   /\ rotationMutex' = rotationMutex
              ELSE /\ wpc' = [wpc EXCEPT ![w] = "idle"]
                   /\ rotationMutex' = NoOne
    /\ UNCHANGED <<nonLogNorHandleVars, faulty, clock, shardFiles, wline, wshard, nWrites,
                   written, created, logger, streamVars>>

\* The name rotateShard gives the new shard: the wall clock to the second.
NewShardName == clock

\* rotateShard, lines 127-155: os.Create makes the file or truncates the one
\* that has the name already, and the new shard has a writer of its own; an
\* error of os.Create is returned with a.currentShard as it was.
RotateCreate(w) ==
    /\ wpc[w] = "rotateCreate"
    /\ \E res \in IoOutcomes :
           IF res = "nil"
           THEN /\ shardFiles' = shardFiles \cup {NewShardName}
                /\ disk' = [disk EXCEPT ![NewShardName] = <<>>]
                /\ currentShard' = [path |-> NewShardName, size |-> 0, buf |-> <<>>,
                                    closed |-> FALSE]
                /\ created' = Append(created, NewShardName \notin shardFiles)
                /\ openShards' = openShards \cup {Len(created) + 1}
                /\ writerErr' = FALSE
                /\ wpc' = [wpc EXCEPT ![w] = "write"]
                /\ rotationMutex' = rotationMutex
           ELSE /\ wpc' = [wpc EXCEPT ![w] = "idle"]
                /\ rotationMutex' = NoOne
                /\ UNCHANGED <<shardFiles, disk, currentShard, created, openShards,
                               writerErr>>
    /\ UNCHANGED <<nonLogNorHandleVars, faulty, clock, wline, wshard, nWrites, written,
                   logger, streamVars>>

\* What the Write of line 92 can do with the bytes out that the buffer
\* passes on to the file: nothing fails while the writer holds no error and
\* the bytes stay in the buffer; a writer that holds an error returns it; a
\* write to a closed file fails; a failing write may have written some bytes.
WriteOutcomes(out) ==
    IF writerErr
    THEN {[file |-> <<>>, err |-> TRUE]}
    ELSE IF out = <<>>
    THEN {[file |-> <<>>, err |-> FALSE]}
    ELSE IF currentShard.closed
    THEN {[file |-> <<>>, err |-> TRUE]}
    ELSE {[file |-> out, err |-> FALSE]}
         \cup {[file |-> Take(out, k), err |-> TRUE] :
                   k \in IF faulty THEN 0..(Len(out) - 1) ELSE {}}

\* WriteRawLine, lines 83-100: write the line, count its bytes, release.  An
\* error of the write is returned before the size is counted.
WriteLine(w) ==
    /\ wpc[w] = "write"
    /\ LET line == WithNewline(wline[w])
           out == BufioWrite(currentShard.buf, line)
       IN \E o \in WriteOutcomes(out.file) :
              /\ disk' = [disk EXCEPT ![currentShard.path] = @ \o o.file]
              /\ IF o.err
                 THEN /\ writerErr' = TRUE
                      /\ UNCHANGED <<currentShard, written>>
                 ELSE /\ writerErr' = writerErr
                      /\ currentShard' = [currentShard EXCEPT !.buf = out.buf,
                                                              !.size = @ + Len(line)]
                      /\ written' = Append(written, [line |-> line,
                                                     shard |-> currentShard.path,
                                                     meta |-> wshard[w],
                                                     gen |-> Len(created)])
    /\ rotationMutex' = NoOne
    /\ wpc' = [wpc EXCEPT ![w] = "idle"]
    /\ UNCHANGED <<nonLogNorHandleVars, openShards, faulty, clock, shardFiles, wline,
                   wshard, nWrites, created, logger, streamVars>>

\* backgroundFlush: one tick of the flush ticker; the result of Flush is
\* dropped.
BackgroundFlush ==
    /\ logger # "absent"
    /\ MutexFree
    /\ \E f \in FlushOutcomes :
           /\ disk' = [disk EXCEPT ![currentShard.path] = @ \o f.file]
           /\ currentShard' = [currentShard EXCEPT !.buf = f.buf]
           /\ writerErr' = (writerErr \/ f.err)
    /\ UNCHANGED <<nonLogNorHandleVars, openShards, faulty, clock, shardFiles,
                   rotationMutex, wpc, wline, wshard, nWrites, written, created, logger,
                   streamVars>>

\* AuditLogger.Close, lines 200-208.
CloseCall ==
    /\ MutexFree
    /\ \E res \in {"nil", "err"} : ShardClose(res)
    /\ logger' = "closed"
    /\ UNCHANGED <<nonLogNorHandleVars, faulty, clock, shardFiles, rotationMutex, wpc,
                   wline, wshard, nWrites, written, created, streamVars>>

\* The first Close of a logger.
Close ==
    /\ logger = "open"
    /\ CloseCall

\* Close is called on a logger that has been closed.
CloseAgain ==
    /\ logger = "closed"
    /\ CloseCall

\* A second of wall-clock time passes.
Tick ==
    /\ clock < MaxClock
    /\ clock' = clock + 1
    /\ UNCHANGED <<nonLogVars, shardFiles, disk, currentShard, rotationMutex, wpc, wline, wshard,
                   nWrites, written, created, logger, streamVars>>

\* NewAuditLogger: the first rotateShard creates the initial shard (when it
\* fails there is no logger).
NewAuditLogger ==
    /\ logger = "absent"
    /\ shardFiles' = shardFiles \cup {NewShardName}
    /\ disk' = [disk EXCEPT ![NewShardName] = <<>>]
    /\ currentShard' = [path |-> NewShardName, size |-> 0, buf |-> <<>>,
                        closed |-> FALSE]
    /\ created' = Append(created, NewShardName \notin shardFiles)
    /\ openShards' = openShards \cup {Len(created) + 1}
    /\ logger' = "open"
    /\ UNCHANGED <<nonLogNorHandleVars, writerErr, faulty, clock, rotationMutex, wpc,
                   wline, wshard, nWrites, written, streamVars>>

-----------------------------------------------------------------------------
(* The ShardIterator and the Streamer *)

\* ShardReader.ReadLine at position off of shard n: bufio's ReadBytes('\n').
\* With no newline left it returns what is left together with io.EOF and
\* the reader has consumed it.
ReadLine(n, off) ==
    LET rest == Drop(disk[n], off)
    IN IF HasNL(rest)
       THEN [line |-> Take(rest, FirstNL(rest)), err |-> "nil",
             off |-> off + FirstNL(rest)]
       ELSE [line |-> rest, err |-> "EOF", off |-> off + Len(rest)]

\* findLatestShard: the last name of the sorted listing, NoShard for none.
FindLatestShard ==
    IF shardFiles = {} THEN NoShard
    ELSE CHOOSE n \in shardFiles : \A m \in shardFiles : m <= n

\* A loop that goes on after the handler returned an error.
HandlerErrorIgnored(ok, loop) == loop

\* Stream, lines 161-163, and tailShard, lines 242-244: where the call is
\* after the handler returned: in its loop still, or returned with
\* "handler error: ...".
AfterHandler(ok, loop) == IF ok THEN loop ELSE "handlerError"

\* A select that never finds s.stopCh ready.
StopNeverSeen == FALSE

\* tailShard, line 222, and waitForFirstShard, line 257: the case
\* <-s.stopCh of the select is ready.
StopSignalled == stopCalled

\* Stream, line 146: NewShardIterator lists and sorts the shards.
StreamStart ==
    /\ spc = "init"
    /\ itShards' = SortedSeq(shardFiles)
    /\ itIdx' = -1
    /\ spc' = "history"
    /\ loggerAtStart' = logger
    /\ UNCHANGED <<nonLogVars, logVars, follow, rdPath, rdOff, tailPath, delivered, tailed,
                   stopCalled, handlerErrs>>

\* ShardIterator.Next, lines 91-102: read the open shard; a line goes to the
\* handler (Stream, line 161), io.EOF closes the shard.
HistoryRead ==
    /\ spc = "history"
    /\ rdPath # NoShard
    /\ LET r == ReadLine(rdPath, rdOff)
       IN IF r.err = "nil"
          THEN /\ delivered' = Append(delivered, r.line)
               /\ rdOff' = r.off
               /\ rdPath' = rdPath
               /\ \E ok \in BOOLEAN :
                      /\ spc' = AfterHandler(ok, spc)
                      /\ handlerErrs' = IF ok THEN handlerErrs ELSE handlerErrs + 1
          ELSE /\ rdPath' = NoShard
               /\ rdOff' = 0
               /\ UNCHANGED <<delivered, spc, handlerErrs>>
    /\ UNCHANGED <<nonLogVars, logVars, follow, itShards, itIdx, tailPath, tailed,
                   loggerAtStart, stopCalled>>

\* ShardIterator.Next, lines 105-115: move to the next shard; after the last
\* one Next returns io.EOF and Stream leaves the history loop.
HistoryAdvance ==
    /\ spc = "history"
    /\ rdPath = NoShard
    /\ itIdx' = itIdx + 1
    /\ IF itIdx + 1 >= Len(itShards)
       THEN /\ spc' = IF follow THEN "follow" ELSE "returned"
            /\ UNCHANGED <<rdPath, rdOff>>
       ELSE /\ rdPath' = itShards[itIdx + 2]
            /\ rdOff' = 0
            /\ spc' = spc
    /\ UNCHANGED <<nonLogVars, logVars, follow, itShards, tailPath, delivered, tailed,
                   loggerAtStart, stopCalled, handlerErrs>>

\* followNewEntries, and one poll of waitForFirstShard.
FollowNewEntries ==
    /\ spc \in {"follow", "waitFirst"}
    /\ IF FindLatestShard = NoShard
       THEN /\ spc' = "waitFirst"
            /\ tailPath' = tailPath
       ELSE /\ spc' = "tailOpen"
            /\ tailPath' = FindLatestShard
    /\ UNCHANGED <<nonLogVars, logVars, follow, itShards, itIdx, rdPath, rdOff, delivered,
                   tailed, loggerAtStart, stopCalled, handlerErrs>>

\* tailShard, lines 211-218: OpenShard reads the shard from its first byte.
TailOpen ==
    /\ spc = "tailOpen"
    /\ rdPath' = tailPath
    /\ rdOff' = 0
    /\ spc' = "tailWait"
    /\ tailed' = Append(tailed, tailPath)
    /\ UNCHANGED <<nonLogVars, logVars, follow, itShards, itIdx, tailPath, delivered,
                   loggerAtStart, stopCalled, handlerErrs>>

\* tailShard, line 224: the ticker fires.
TailTick ==
    /\ spc = "tailWait"
    /\ spc' = "tailRead"
    /\ UNCHANGED <<nonLogVars, logVars, follow, itShards, itIdx, rdPath, rdOff, tailPath,
                   delivered, tailed, loggerAtStart, stopCalled, handlerErrs>>

\* tailShard, lines 227-244: one ReadLine of the inner loop.
TailRead ==
    /\ spc = "tailRead"
    /\ LET r == ReadLine(rdPath, rdOff)
       IN /\ rdOff' = r.off
          /\ IF r.err = "nil"
             THEN /\ delivered' = Append(delivered, r.line)
                  /\ \E ok \in BOOLEAN :
                         /\ spc' = AfterHandler(ok, spc)
                         /\ handlerErrs' = IF ok THEN handlerErrs ELSE handlerErrs + 1
             ELSE /\ delivered' = delivered
                  /\ spc' = "tailEOF"
                  /\ handlerErrs' = handlerErrs
    /\ UNCHANGED <<nonLogVars, logVars, follow, itShards, itIdx, rdPath, tailPath, tailed,
                   loggerAtStart, stopCalled>>

\* tailShard, lines 230-236: at io.EOF look the newest shard up and switch to
\* it when it is another one.
TailLookup ==
    /\ spc = "tailEOF"
    /\ IF FindLatestShard # tailPath
       THEN /\ rdPath' = NoShard
            /\ tailPath' = FindLatestShard
            /\ spc' = "tailOpen"
       ELSE /\ spc' = "tailWait"
            /\ UNCHANGED <<rdPath, tailPath>>
    /\ UNCHANGED <<nonLogVars, logVars, follow, itShards, itIdx, rdOff, delivered, tailed,
                   loggerAtStart, stopCalled, handlerErrs>>

\* Streamer.Stop, lines 272-274: close(s.stopCh).
StreamerStop ==
    /\ ~stopCalled
    /\ stopCalled' = TRUE
    /\ UNCHANGED <<nonLogVars, logVars, spc, follow, itShards, itIdx, rdPath, rdOff,
                   tailPath, delivered, tailed, loggerAtStart, handlerErrs>>

\* tailShard, lines 222-223, and waitForFirstShard, lines 257-258: the
\* select takes the stopCh case and the call returns nil.
StreamStopped ==
    /\ spc \in {"tailWait", "waitFirst"}
    /\ StopSignalled
    /\ spc' = "returned"
    /\ UNCHANGED <<nonLogVars, logVars, follow, itShards, itIdx, rdPath, rdOff, tailPath,
                   delivered, tailed, loggerAtStart, stopCalled, handlerErrs>>

-----------------------------------------------------------------------------
(* The CaptureDaemon: event admission, the workers, Stop *)

Range(q) == {q[i] : i \in 1..Len(q)}

\* handleEvent, lines 261-264: count the event; the select comes next.
HandleEventBegin(g) ==
    /\ hpc[g] = "idle"
    /\ nEvents < MaxEvents
    /\ nEvents' = nEvents + 1
    /\ hev' = [hev EXCEPT ![g] = nEvents + 1]
    /\ metrics' = [metrics EXCEPT !.received = @ + 1]
    /\ hpc' = [hpc EXCEPT ![g] = "select"]
    /\ UNCHANGED <<nonDaemonVars, eventQueue, queueClosed, ctxDone, watcherStopCh,
                   ret, wkpc, batch, flushed, flushLog, dpc>>

\* The send case of the select, line 267-268: the event enters the queue and
\* handleEvent returns nil.
Admit(g) ==
    /\ eventQueue' = Append(eventQueue, hev[g])
    /\ ret' = [ret EXCEPT ![hev[g]] = "ok"]
    /\ hpc' = [hpc EXCEPT ![g] = "idle"]
    /\ UNCHANGED metrics

\* handleEvent, line 266: the select is entered; with room in the queue the
\* send goes through at once, else the call blocks on both cases.
HandleSelect(g) ==
    /\ hpc[g] = "select"
    /\ ~queueClosed
    /\ IF Len(eventQueue) < QueueCap
       THEN Admit(g)
       ELSE /\ hpc' = [hpc EXCEPT ![g] = "blocked"]
            /\ UNCHANGED <<eventQueue, ret, metrics>>
    /\ UNCHANGED <<nonDaemonVars, queueClosed, ctxDone, watcherStopCh, hev,
                   nEvents, wkpc, batch, flushed, flushLog, dpc>>

\* The blocked send goes through when a worker has made room.
HandleBlockedSend(g) ==
    /\ hpc[g] = "blocked"
    /\ ~queueClosed
    /\ Len(eventQueue) < QueueCap
    /\ Admit(g)
    /\ UNCHANGED <<nonDaemonVars, queueClosed, ctxDone, watcherStopCh, hev,
                   nEvents, wkpc, batch, flushed, flushLog, dpc>>

\* A timeout case that forgets to count the drop.
CountDropForgotten(m) == m

\* What the timeout case does to the counters, lines 271-273.
CountDrop(m) == [m EXCEPT !.dropped = @ + 1]

\* handleEvent, lines 269-274: time.After fires; the event is dropped, the
\* drop is counted and the call returns the error.
HandleTimeout(g) ==
    /\ hpc[g] = "blocked"
    /\ metrics' = CountDrop(metrics)
    /\ ret' = [ret EXCEPT ![hev[g]] = "full"]
    /\ hpc' = [hpc EXCEPT ![g] = "idle"]
    /\ UNCHANGED <<nonDaemonVars, eventQueue, queueClosed, ctxDone,
                   watcherStopCh, hev, nEvents, wkpc, batch, flushed, flushLog, dpc>>

\* watchLoop and tailLoop return at their select once stopCh is closed.
ProducerExit(g) ==
    /\ hpc[g] = "idle"
    /\ watcherStopCh
    /\ hpc' = [hpc EXCEPT ![g] = "exited"]
    /\ UNCHANGED <<nonDaemonVars, eventQueue, queueClosed, ctxDone,
                   watcherStopCh, metrics, hev, nEvents, ret, wkpc, batch,
                   flushed, flushLog, dpc>>

\* What the two writes of flushBatch for one event can return: WriteRawLine
\* for the raw line (every event of this model is a message event and has
\* one) and WriteEvent for the audit record.
WriteResults == [raw : IoOutcomes, rec : IoOutcomes]

\* A loop that returns at the first write that fails.
AbortAtError(b, o) ==
    IF \E i \in 1..Len(b) : "err" \in {o[i].raw, o[i].rec}
    THEN CHOOSE i \in 1..Len(b) :
             /\ "err" \in {o[i].raw, o[i].rec}
             /\ \A j \in 1..(i - 1) : "err" \notin {o[j].raw, o[j].rec}
    ELSE Len(b)

\* The number of events of the batch b that the loop of flushBatch gets to,
\* lines 318-353, when the writes return o: an error is printed and the
\* loop goes on, so it gets to all of them.
Attempted(b, o) == Len(b)

\* flushBatch, lines 317-354: every event of the batch b is written to the
\* logger; an event whose audit record was written is counted, lines 349-352.
FlushBatch(b, cause) ==
    \E o \in [1..Len(b) -> WriteResults] :
        LET n == Attempted(b, o)
        IN /\ flushed' = flushed \cup {b[i] : i \in 1..n}
           /\ flushLog' = flushLog \o [i \in 1..n |->
                               [event |-> b[i], by |-> cause,
                                raw |-> o[i].raw, rec |-> o[i].rec]]
           /\ metrics' = [metrics EXCEPT !.processed =
                              @ + Cardinality({i \in 1..n : o[i].rec = "nil"})]

\* A worker that goes on with the batch it has flushed.
KeepBatch(b) == b

\* processEvents, lines 304 and 310: batch = batch[:0].
ResetBatch(b) == <<>>

\* processEvents, lines 289-292: the cancellation case of the select.
WorkerCtxDone(k) ==
    /\ wkpc[k] = "run"
    /\ ctxDone
    /\ FlushBatch(batch[k], "shutdown")
    /\ wkpc' = [wkpc EXCEPT ![k] = "exited"]
    /\ UNCHANGED <<nonDaemonVars, eventQueue, queueClosed, ctxDone,
                   watcherStopCh, hpc, hev, nEvents, ret, batch, dpc>>

\* processEvents, lines 294-305: an event is received; a full batch is flushed.
WorkerReceive(k) ==
    /\ wkpc[k] = "run"
    /\ eventQueue # <<>>
    /\ eventQueue' = Tail(eventQueue)
    /\ IF Len(batch[k]) + 1 >= BatchSize
       THEN /\ FlushBatch(Append(batch[k], Head(eventQueue)), "full")
            /\ batch' = [batch EXCEPT ![k] = ResetBatch(Append(@, Head(eventQueue)))]
       ELSE /\ batch' = [batch EXCEPT ![k] = Append(@, Head(eventQueue))]
            /\ UNCHANGED <<flushed, flushLog, metrics>>
    /\ UNCHANGED <<nonDaemonVars, queueClosed, ctxDone, watcherStopCh, hpc, hev,
                   nEvents, ret, wkpc, dpc>>

\* processEvents, lines 295-299: the receive reports the queue closed and
\* empty.
WorkerQueueClosed(k) ==
    /\ wkpc[k] = "run"
    /\ queueClosed
    /\ eventQueue = <<>>
    /\ FlushBatch(batch[k], "shutdown")
    /\ wkpc' = [wkpc EXCEPT ![k] = "exited"]
    /\ UNCHANGED <<nonDaemonVars, eventQueue, queueClosed, ctxDone,
                   watcherStopCh, hpc, hev, nEvents, ret, batch, dpc>>

\* processEvents, lines 307-311: the flush ticker fires on a pending batch.
WorkerTick(k) ==
    /\ wkpc[k] = "run"
    /\ Len(batch[k]) > 0
    /\ FlushBatch(batch[k], "tick")
    /\ batch' = [batch EXCEPT ![k] = ResetBatch(@)]
    /\ UNCHANGED <<nonDaemonVars, eventQueue, queueClosed, ctxDone,
                   watcherStopCh, hpc, hev, nEvents, ret, wkpc, dpc>>

\* Stop, line 214: d.cancel().
StopCancel ==
    /\ dpc = "running"
    /\ ctxDone' = TRUE
    /\ dpc' = "stopWatcher"
    /\ UNCHANGED <<nonDaemonVars, eventQueue, queueClosed, watcherStopCh,
                   metrics, hpc, hev, nEvents, ret, wkpc, batch, flushed, flushLog>>

\* Stop, line 217, and SessionWatcher.Stop, line 146: close(w.stopCh).
StopWatcherSignal ==
    /\ dpc = "stopWatcher"
    /\ watcherStopCh' = TRUE
    /\ dpc' = "waitWatcher"
    /\ UNCHANGED <<nonDaemonVars, eventQueue, queueClosed, ctxDone, metrics,
                   hpc, hev, nEvents, ret, wkpc, batch, flushed, flushLog>>

\* A Stop of the watcher that does not wait for its loops.
LoopsNotAwaited == TRUE

\* SessionWatcher.Stop, line 147: w.wg.Wait() returns when watchLoop and
\* tailLoop have.
LoopsReturned == \A g \in Producers : hpc[g] = "exited"

\* SessionWatcher.Stop, line 147, then Stop, line 222: once both watcher
\* loops have returned, close(d.eventQueue).
StopCloseQueue ==
    /\ dpc = "waitWatcher"
    /\ LoopsReturned
    /\ queueClosed' = TRUE
    /\ dpc' = "waitWorkers"
    /\ UNCHANGED <<nonDaemonVars, eventQueue, ctxDone, watcherStopCh, metrics,
                   hpc, hev, nEvents, ret, wkpc, batch, flushed, flushLog>>

\* A Wait that returns at once.
NoWait == TRUE

\* d.wg.Wait(), line 225, returns: every task Start added has called Done.
WaitGroupDone ==
    /\ \A k \in Workers : wkpc[k] = "exited"
    /\ snpc \in {"none", "exited"}

\* Stop, lines 225-236: d.wg.Wait() returns when every worker has; the logger
\* is closed, the PID and status files are removed and Stop returns.
StopReturn ==
    /\ dpc = "waitWorkers"
    /\ WaitGroupDone
    /\ loggerClosed' = TRUE
    /\ dpc' = "returned"
    /\ UNCHANGED <<nonDaemonNorShutdownVars, eventQueue, queueClosed, ctxDone,
                   watcherStopCh, metrics, hpc, hev, nEvents, ret, wkpc, batch,
                   flushed, flushLog>>

\* writeStatus, lines 382-384: the ticker fires and writeStatusFile is
\* called.  Its RLock section, lines 395-409, stores the pointer d.metrics
\* in the status struct and copies no counter.
WriteStatusTick ==
    /\ snpc = "idle"
    /\ nSnaps < MaxSnapshots
    /\ nSnaps' = nSnaps + 1
    /\ snpc' = "received"
    /\ UNCHANGED <<nonSnapshotVars, snap, statusMetrics>>

\* The counters in the order json.MarshalIndent, line 416, reads them: the
\* order of the fields of Metrics.
MarshalOrder == <<"received", "processed", "dropped", "write">>

\* json.MarshalIndent, line 416, reads one counter through the pointer,
\* with d.metrics.mu not held.
ReadCounter(field) == [snap EXCEPT ![field] = metrics[field]]

\* One read of json.MarshalIndent.
MarshalCounter ==
    /\ \E i \in 1..3 :
           /\ snpc = MarshalOrder[i]
           /\ snap' = ReadCounter(snpc)
           /\ snpc' = MarshalOrder[i + 1]
    /\ UNCHANGED <<nonSnapshotVars, statusMetrics, nSnaps>>

\* writeStatusFile, lines 422-426: the marshalled status becomes the status
\* file.
WriteStatusFile ==
    /\ snpc = "write"
    /\ statusMetrics' = Append(statusMetrics, snap)
    /\ snpc' = "idle"
    /\ UNCHANGED <<nonSnapshotVars, snap, nSnaps>>

\* writeStatus, lines 380-381: the cancellation case of the select.
WriteStatusExit ==
    /\ snpc = "idle"
    /\ ctxDone
    /\ snpc' = "exited"
    /\ UNCHANGED <<nonSnapshotVars, snap, statusMetrics, nSnaps>>

\* The writeStatus task is not followed.
InitSnapshotVars ==
    /\ snpc = "none"
    /\ snap = [received |-> 0, processed |-> 0, dropped |-> 0]
    /\ statusMetrics = <<>>
    /\ nSnaps = 0

InitDaemonVars ==
    /\ eventQueue = <<>>
    /\ queueClosed = FALSE
    /\ ctxDone = FALSE
    /\ watcherStopCh = FALSE
    /\ metrics = [received |-> 0, processed |-> 0, dropped |-> 0]
    /\ hpc = [g \in Producers |-> "idle"]
    /\ hev = [g \in Producers |-> 0]
    /\ nEvents = 0
    /\ ret = [e \in Events |-> "none"]
    /\ wkpc = [k \in Workers |-> "run"]
    /\ batch = [k \in Workers |-> <<>>]
    /\ flushed = {}
    /\ flushLog = <<>>
    /\ dpc = "running"

-----------------------------------------------------------------------------
(* Start and Stop of daemon processes on one audit directory.  Process d   *)
(* has pid d.                                                              *)

\* isRunning, lines 437-455: the PID file can be read, holds a pid and
\* signal 0 reaches that process.
IsRunning == pidFile.exists /\ pidFile.pid \in alive

\* Start, lines 169-171: refuse when isRunning reports a live daemon.
StartCheck(d) ==
    /\ startpc[d] = "start"
    /\ d \in alive
    /\ startpc' = [startpc EXCEPT ![d] = IF IsRunning THEN "refused" ELSE "writePID"]
    /\ UNCHANGED <<nonPidVars, pidFile, alive>>

\* writePIDFile, line 433: os.WriteFile first creates or truncates the file.
WritePIDOpen(d) ==
    /\ startpc[d] = "writePID"
    /\ d \in alive
    /\ pidFile' = [exists |-> TRUE, pid |-> 0]
    /\ startpc' = [startpc EXCEPT ![d] = "writePIDData"]
    /\ UNCHANGED <<nonPidVars, alive>>

\* writePIDFile, line 433: then it writes the pid.
WritePIDData(d) ==
    /\ startpc[d] = "writePIDData"
    /\ d \in alive
    /\ pidFile' = [exists |-> TRUE, pid |-> d]
    /\ startpc' = [startpc EXCEPT ![d] = "launch"]
    /\ UNCHANGED <<nonPidVars, alive>>

\* Start, lines 179-208: the watcher and the worker, metrics and status
\* tasks are started and Start returns nil.
StartLaunch(d) ==
    /\ startpc[d] = "launch"
    /\ d \in alive
    /\ startpc' = [startpc EXCEPT ![d] = "running"]
    /\ UNCHANGED <<nonPidVars, pidFile, alive>>

\* Stop, lines 233-234: the daemon removes the PID file and ends.
StopRemovePID(d) ==
    /\ startpc[d] = "running"
    /\ d \in alive
    /\ pidFile' = [exists |-> FALSE, pid |-> 0]
    /\ startpc' = [startpc EXCEPT ![d] = "stopped"]
    /\ alive' = alive \ {d}
    /\ UNCHANGED nonPidVars

\* The process is killed; nothing is cleaned up.
Kill(d) ==
    /\ d \in alive
    /\ alive' = alive \ {d}
    /\ UNCHANGED <<nonPidVars, pidFile, startpc>>

\* NewCaptureDaemon, lines 122-135, in the process d: audit.NewAuditLogger
\* runs its first rotateShard on the audit directory, whose os.Create makes
\* the shard file named by the clock or truncates the one of that name.
NewCaptureDaemon(d) ==
    /\ startpc[d] = "new"
    /\ d \in alive
    /\ shardFiles' = shardFiles \cup {NewShardName}
    /\ disk' = [disk EXCEPT ![NewShardName] = <<>>]
    /\ startpc' = [startpc EXCEPT ![d] = "start"]
    /\ UNCHANGED <<nonLogNorPidVars, clock, currentShard, rotationMutex, wpc, wline,
                   wshard, nWrites, written, created, logger, streamVars, pidFile,
                   alive>>

InitPidVars ==
    /\ pidFile = [exists |-> FALSE, pid |-> 0]
    /\ alive = Daemons
    /\ startpc = [d \in Daemons |-> "start"]

-----------------------------------------------------------------------------
(* The SessionWatcher.  One directory is watched; its session files are the *)
(* members of Paths, numbered in the order filepath.Glob lists them, and    *)
(* all of them match the pattern.  w.mu is taken for writing by Lock and    *)
(* for reading by RLock; every RLock section of the code runs without       *)
(* blocking, so it is one step that needs w.mu free of a writer.            *)

\* bufio.Reader.ReadBytes('\n') on data from position off: a whole line and
\* nil, or what is left and io.EOF.
ReadBytes(data, off) ==
    LET rest == Drop(data, off)
    IN IF HasNL(rest)
       THEN [line |-> Take(rest, FirstNL(rest)), err |-> "nil"]
       ELSE [line |-> rest, err |-> "EOF"]

\* What fsnotify queues for an operation on a file of the directory: nothing
\* unless the directory was added to the notifier.
Notification(op, p) ==
    IF watchedPaths THEN Append(fsEvents, [op |-> op, name |-> p]) ELSE fsEvents

\* The orders in which a range over a map with the keys S can run.
Orders(S) ==
    {q \in [1..Cardinality(S) -> S] : \A x \in S : \E i \in DOMAIN q : q[i] = x}

\* A tool creates the session file p.
FsCreate(p) ==
    /\ files[p].state = "absent"
    /\ files' = [files EXCEPT ![p] = [state |-> "present", data |-> <<>>]]
    /\ fsEvents' = Notification("create", p)
    /\ UNCHANGED <<nonWatcherVars, nAppends, watchedPaths, activeSessions, tails, mu,
                   stopCh, gpc, gpath, gtodo, gsess, gsize, gpos, gret, gev, events,
                   nScans, matched>>

\* A tool appends to the session file p: a whole line, or bytes that do not
\* end a line yet.
FsAppend(p) ==
    /\ files[p].state = "present"
    /\ nAppends < MaxAppends
    /\ nAppends' = nAppends + 1
    /\ \E bytes \in {<<nAppends + 1, NL>>, <<nAppends + 1>>} :
           files' = [files EXCEPT ![p].data = @ \o bytes]
    /\ fsEvents' = Notification("write", p)
    /\ UNCHANGED <<nonWatcherVars, watchedPaths, activeSessions, tails, mu,
                   stopCh, gpc, gpath, gtodo, gsess, gsize, gpos, gret, gev, events,
                   nScans, matched>>

\* The session file p is deleted; a handle opened before keeps its bytes.
FsRemove(p) ==
    /\ files[p].state = "present"
    /\ files' = [files EXCEPT ![p].state = "removed"]
    /\ fsEvents' = Notification("remove", p)
    /\ UNCHANGED <<nonWatcherVars, nAppends, watchedPaths, activeSessions, tails, mu,
                   stopCh, gpc, gpath, gtodo, gsess, gsize, gpos, gret, gev, events,
                   nScans, matched>>

\* WatchDirectory, lines 76-86: the directory exists.
WatchDirectoryCall ==
    /\ gpc["main"] = "idle"
    /\ nScans < MaxScans
    /\ nScans' = nScans + 1
    /\ gpc' = [gpc EXCEPT !["main"] = "wd_lock"]
    /\ UNCHANGED <<nonWatcherVars, files, nAppends, fsEvents, watchedPaths,
                   activeSessions, tails, mu, stopCh, gpath, gtodo, gsess, gsize,
                   gpos, gret, gev, events, matched>>

\* WatchDirectory, lines 88-103: w.mu.Lock(), register the directory, glob.
WatchDirectoryLock ==
    /\ gpc["main"] = "wd_lock"
    /\ mu = NoOne
    /\ mu' = "main"
    /\ watchedPaths' = TRUE
    /\ matched' = {p \in Paths : files[p].state = "present"}
    /\ gtodo' = [gtodo EXCEPT !["main"] = SortedSeq(matched')]
    /\ gpc' = [gpc EXCEPT !["main"] = "wd_scan"]
    /\ UNCHANGED <<nonWatcherVars, files, nAppends, fsEvents, activeSessions, tails,
                   stopCh, gpath, gsess, gsize, gpos, gret, gev, events, nScans>>

\* WatchDirectory, lines 105-112: call startTailing for the next match, or
\* return through the deferred Unlock.
WatchDirectoryScan ==
    /\ gpc["main"] = "wd_scan"
    /\ IF gtodo["main"] = <<>>
       THEN /\ mu' = NoOne
            /\ gpc' = [gpc EXCEPT !["main"] = "idle"]
            /\ UNCHANGED <<gpath, gtodo>>
       ELSE /\ gpath' = [gpath EXCEPT !["main"] = Head(gtodo["main"])]
            /\ gtodo' = [gtodo EXCEPT !["main"] = Tail(gtodo["main"])]
            /\ gpc' = [gpc EXCEPT !["main"] = "st_lock"]
            /\ mu' = mu
    /\ UNCHANGED <<nonWatcherVars, files, nAppends, fsEvents, watchedPaths,
                   activeSessions, tails, stopCh, gsess, gsize, gpos, gret, gev,
                   events, nScans, matched>>

\* Where startTailing and stopTailing return to.
Caller(g) == IF g = "main" THEN "wd_scan" ELSE "wl_select"

\* startTailing, line 225: w.mu.Lock().
StartTailingLock(g) ==
    /\ gpc[g] = "st_lock"
    /\ mu = NoOne
    /\ mu' = g
    /\ gpc' = [gpc EXCEPT ![g] = "st_open"]
    /\ UNCHANGED <<nonWatcherVars, files, nAppends, fsEvents, watchedPaths,
                   activeSessions, tails, stopCh, gpath, gtodo, gsess, gsize, gpos,
                   gret, gev, events, nScans, matched>>

\* The session_start event of lines 268-273.
SessionStart(p) ==
    [type |-> "session_start", path |-> p, line |-> <<>>, SessionID |-> NoSid]

\* startTailing, lines 229-265.  A path already tailed and a file that cannot
\* be opened return through the deferred Unlock.  An empty file is
\* registered at once; for any other, w.mu is released and readNewLines
\* runs on the new tail.
StartTailingOpen(g) ==
    /\ gpc[g] = "st_open"
    /\ LET p == gpath[g]
           id == Len(tails) + 1
           size == Len(files[p].data)
       IN IF activeSessions[p] # NoTail \/ files[p].state # "present"
          THEN /\ mu' = NoOne
               /\ gpc' = [gpc EXCEPT ![g] = Caller(g)]
               /\ UNCHANGED <<tails, activeSessions, gsess, gsize, gpos, gret, gev>>
          ELSE /\ tails' = Append(tails, [path |-> p, LastOffset |-> 0, closed |-> FALSE,
                                            SessionID |-> NoSid])
               /\ gsess' = [gsess EXCEPT ![g] = id]
               /\ gsize' = [gsize EXCEPT ![g] = size]
               /\ IF size = 0
                  THEN /\ activeSessions' = [activeSessions EXCEPT ![p] = id]
                       /\ gev' = [gev EXCEPT ![g] = SessionStart(p)]
                       /\ gpc' = [gpc EXCEPT ![g] = "st_notify"]
                       /\ UNCHANGED <<mu, gpos, gret>>
                  ELSE /\ mu' = NoOne
                       /\ gpos' = [gpos EXCEPT ![g] = 0]
                       /\ gret' = [gret EXCEPT ![g] = "st_relock"]
                       /\ gpc' = [gpc EXCEPT ![g] = "rn_read"]
                       /\ UNCHANGED <<activeSessions, gev>>
    /\ UNCHANGED <<nonWatcherVars, files, nAppends, fsEvents, watchedPaths, stopCh,
                   gpath, gtodo, events, nScans, matched>>

\* startTailing, lines 261-273: after the backlog, w.mu.Lock() again, the
\* offset becomes the size read before the backlog, the tail is registered.
StartTailingRelock(g) ==
    /\ gpc[g] = "st_relock"
    /\ mu = NoOne
    /\ mu' = g
    /\ tails' = [tails EXCEPT ![gsess[g]].LastOffset = gsize[g]]
    /\ activeSessions' = [activeSessions EXCEPT ![gpath[g]] = gsess[g]]
    /\ gev' = [gev EXCEPT ![g] = SessionStart(gpath[g])]
    /\ gpc' = [gpc EXCEPT ![g] = "st_notify"]
    /\ UNCHANGED <<nonWatcherVars, files, nAppends, fsEvents, watchedPaths, stopCh,
                   gpath, gtodo, gsess, gsize, gpos, gret, events, nScans, matched>>

\* json.Unmarshal and data["sessionId"].(string), lines 343-348: the first
\* byte of a line stands for the value of its sessionId member.
SessionIdOf(line) == IF line # <<>> /\ line[1] # NL THEN line[1] ELSE NoSid

\* readNewLines, lines 348-350: the id of a line is stored in a tail that has
\* none yet.
CacheSessionID(cached, line) ==
    IF SessionIdOf(line) # NoSid /\ cached = NoSid THEN SessionIdOf(line) ELSE cached

\* readNewLines, lines 320-351: one turn of the loop.  A line advances the
\* offset and becomes a message event; io.EOF or a closed file ends the call.
ReadNewLines(g) ==
    /\ gpc[g] = "rn_read"
    /\ LET s == tails[gsess[g]]
           r == ReadBytes(files[s.path].data, gpos[g])
       IN IF s.closed \/ r.err # "nil"
          THEN /\ gpc' = [gpc EXCEPT ![g] = gret[g]]
               /\ UNCHANGED <<tails, gpos, gev>>
          ELSE /\ tails' = [tails EXCEPT ![gsess[g]].LastOffset = @ + Len(r.line),
                                          ![gsess[g]].SessionID = CacheSessionID(@, r.line)]
               /\ gpos' = [gpos EXCEPT ![g] = @ + Len(r.line)]
               /\ gev' = [gev EXCEPT ![g] =
                             [type |-> "message", path |-> s.path, line |-> r.line,
                              SessionID |-> s.SessionID]]
               /\ gpc' = [gpc EXCEPT ![g] = "rn_notify"]
    /\ UNCHANGED <<nonWatcherVars, files, nAppends, fsEvents, watchedPaths,
                   activeSessions, mu, stopCh, gpath, gtodo, gsess, gsize, gret,
                   events, nScans, matched>>

\* notifyHandlers, lines 358-369: w.mu.RLock(), copy the handlers, RUnlock,
\* call them.  Called from readNewLines the loop goes on; called from
\* startTailing or stopTailing the caller returns through its deferred Unlock.
NotifyHandlers(g) ==
    /\ gpc[g] \in {"rn_notify", "st_notify", "sp_notify"}
    /\ mu = NoOne
    /\ events' = Append(events, gev[g])
    /\ IF gpc[g] = "rn_notify"
       THEN gpc' = [gpc EXCEPT ![g] = "rn_read"]
       ELSE gpc' = [gpc EXCEPT ![g] = Caller(g)]
    /\ mu' = NoOne
    /\ UNCHANGED <<nonWatcherVars, files, nAppends, fsEvents, watchedPaths,
                   activeSessions, tails, stopCh, gpath, gtodo, gsess, gsize, gpos,
                   gret, gev, nScans, matched>>

\* Start, lines 134-142: the two loops begin.
WatcherStart ==
    /\ gpc["main"] = "idle"
    /\ gpc["watchLoop"] = "unstarted"
    /\ gpc' = [gpc EXCEPT !["watchLoop"] = "wl_select", !["tailLoop"] = "tl_select"]
    /\ UNCHANGED <<nonWatcherVars, files, nAppends, fsEvents, watchedPaths,
                   activeSessions, tails, mu, stopCh, gpath, gtodo, gsess, gsize,
                   gpos, gret, gev, events, nScans, matched>>

\* watchLoop, lines 166-167: the stopCh case of the select.
WatchLoopStop ==
    /\ gpc["watchLoop"] = "wl_select"
    /\ stopCh
    /\ gpc' = [gpc EXCEPT !["watchLoop"] = "exited"]
    /\ UNCHANGED <<nonWatcherVars, files, nAppends, fsEvents, watchedPaths,
                   activeSessions, tails, mu, stopCh, gpath, gtodo, gsess, gsize,
                   gpos, gret, gev, events, nScans, matched>>

\* watchLoop, lines 169-184: receive a notification and dispatch on its Op.
WatchLoopEvent ==
    /\ gpc["watchLoop"] = "wl_select"
    /\ fsEvents # <<>>
    /\ LET e == Head(fsEvents)
       IN /\ gpath' = [gpath EXCEPT !["watchLoop"] = e.name]
          /\ gpc' = [gpc EXCEPT !["watchLoop"] =
                        CASE e.op = "write" -> "hw_rlock"
                          [] e.op = "create" -> "st_lock"
                          [] e.op = "remove" -> "sp_lock"]
    /\ fsEvents' = Tail(fsEvents)
    /\ UNCHANGED <<nonWatcherVars, files, nAppends, watchedPaths, activeSessions,
                   tails, mu, stopCh, gtodo, gsess, gsize, gpos, gret, gev, events,
                   nScans, matched>>

\* handleFileWrite, lines 213-221: look the tail up under RLock and, if there
\* is one, run readNewLines on it.
HandleFileWrite ==
    /\ gpc["watchLoop"] = "hw_rlock"
    /\ mu = NoOne
    /\ LET id == activeSessions[gpath["watchLoop"]]
       IN IF id # NoTail
          THEN /\ gsess' = [gsess EXCEPT !["watchLoop"] = id]
               /\ gpos' = [gpos EXCEPT !["watchLoop"] = tails[id].LastOffset]
               /\ gret' = [gret EXCEPT !["watchLoop"] = "wl_select"]
               /\ gpc' = [gpc EXCEPT !["watchLoop"] = "rn_read"]
          ELSE /\ gpc' = [gpc EXCEPT !["watchLoop"] = "wl_select"]
               /\ UNCHANGED <<gsess, gpos, gret>>
    /\ UNCHANGED <<nonWatcherVars, files, nAppends, fsEvents, watchedPaths,
                   activeSessions, tails, mu, stopCh, gpath, gtodo, gsize, gev,
                   events, nScans, matched>>

\* stopTailing, lines 281-295: w.mu.Lock(); a tracked path has its file
\* closed and its tail deleted and a session_end event is built; otherwise
\* the deferred Unlock runs.
StopTailing ==
    /\ gpc["watchLoop"] = "sp_lock"
    /\ mu = NoOne
    /\ LET p == gpath["watchLoop"]
           id == activeSessions[p]
       IN IF id # NoTail
          THEN /\ mu' = "watchLoop"
               /\ tails' = [tails EXCEPT ![id].closed = TRUE]
               /\ activeSessions' = [activeSessions EXCEPT ![p] = NoTail]
               /\ gev' = [gev EXCEPT !["watchLoop"] =
                             [type |-> "session_end", path |-> p, line |-> <<>>,
                              SessionID |-> tails[id].SessionID]]
               /\ gpc' = [gpc EXCEPT !["watchLoop"] = "sp_notify"]
          ELSE /\ gpc' = [gpc EXCEPT !["watchLoop"] = "wl_select"]
               /\ UNCHANGED <<mu, tails, activeSessions, gev>>
    /\ UNCHANGED <<nonWatcherVars, files, nAppends, fsEvents, watchedPaths, stopCh,
                   gpath, gtodo, gsess, gsize, gpos, gret, events, nScans, matched>>

\* tailLoop, lines 204-205: the stopCh case of the select.
TailLoopStop ==
    /\ gpc["tailLoop"] = "tl_select"
    /\ stopCh
    /\ gpc' = [gpc EXCEPT !["tailLoop"] = "exited"]
    /\ UNCHANGED <<nonWatcherVars, files, nAppends, fsEvents, watchedPaths,
                   activeSessions, tails, mu, stopCh, gpath, gtodo, gsess, gsize,
                   gpos, gret, gev, events, nScans, matched>>

\* tailLoop, lines 206-207: the ticker fires.
TailLoopTick ==
    /\ gpc["tailLoop"] = "tl_select"
    /\ gpc' = [gpc EXCEPT !["tailLoop"] = "cs_rlock"]
    /\ UNCHANGED <<nonWatcherVars, files, nAppends, fsEvents, watchedPaths,
                   activeSessions, tails, mu, stopCh, gpath, gtodo, gsess, gsize,
                   gpos, gret, gev, events, nScans, matched>>

\* checkAllSessions, lines 302-307: collect the tails under RLock.
CheckAllSessions ==
    /\ gpc["tailLoop"] = "cs_rlock"
    /\ mu = NoOne
    /\ \E q \in Orders({activeSessions[p] : p \in Paths} \ {NoTail}) :
           gtodo' = [gtodo EXCEPT !["tailLoop"] = q]
    /\ gpc' = [gpc EXCEPT !["tailLoop"] = "cs_loop"]
    /\ UNCHANGED <<nonWatcherVars, files, nAppends, fsEvents, watchedPaths,
                   activeSessions, tails, mu, stopCh, gpath, gsess, gsize, gpos,
                   gret, gev, events, nScans, matched>>

\* checkAllSessions, lines 309-311: readNewLines for the next collected tail.
CheckNextSession ==
    /\ gpc["tailLoop"] = "cs_loop"
    /\ LET todo == gtodo["tailLoop"]
       IN IF Len(todo) = 0
          THEN /\ gpc' = [gpc EXCEPT !["tailLoop"] = "tl_select"]
               /\ UNCHANGED <<gtodo, gsess, gpos, gret>>
          ELSE /\ gsess' = [gsess EXCEPT !["tailLoop"] = todo[1]]
               /\ gpos' = [gpos EXCEPT !["tailLoop"] = tails[todo[1]].LastOffset]
               /\ gret' = [gret EXCEPT !["tailLoop"] = "cs_loop"]
               /\ gtodo' = [gtodo EXCEPT !["tailLoop"] = Tail(todo)]
               /\ gpc' = [gpc EXCEPT !["tailLoop"] = "rn_read"]
    /\ UNCHANGED <<nonWatcherVars, files, nAppends, fsEvents, watchedPaths,
                   activeSessions, tails, mu, stopCh, gpath, gsize, gev, events,
                   nScans, matched>>

\* Stop, line 146: close(w.stopCh).
WatcherStopClose ==
    /\ gpc["main"] = "idle"
    /\ ~stopCh
    /\ stopCh' = TRUE
    /\ gpc' = [gpc EXCEPT !["main"] = "stop_wait"]
    /\ UNCHANGED <<nonWatcherVars, files, nAppends, fsEvents, watchedPaths,
                   activeSessions, tails, mu, gpath, gtodo, gsess, gsize, gpos,
                   gret, gev, events, nScans, matched>>

\* Stop, line 147: w.wg.Wait() returns when no loop is running.
WatcherStopWait ==
    /\ gpc["main"] = "stop_wait"
    /\ \A g \in {"watchLoop", "tailLoop"} : gpc[g] \in {"unstarted", "exited"}
    /\ gpc' = [gpc EXCEPT !["main"] = "stop_lock"]
    /\ UNCHANGED <<nonWatcherVars, files, nAppends, fsEvents, watchedPaths,
                   activeSessions, tails, mu, stopCh, gpath, gtodo, gsess, gsize,
                   gpos, gret, gev, events, nScans, matched>>

\* Stop, lines 149-157: under w.mu, close the file of every active tail.
WatcherStopCloseFiles ==
    /\ gpc["main"] = "stop_lock"
    /\ mu = NoOne
    /\ tails' = [i \in DOMAIN tails |->
                    IF \E p \in Paths : activeSessions[p] = i
                    THEN [tails[i] EXCEPT !.closed = TRUE] ELSE tails[i]]
    /\ gpc' = [gpc EXCEPT !["main"] = "stopped"]
    /\ UNCHANGED <<nonWatcherVars, files, nAppends, fsEvents, watchedPaths,
                   activeSessions, mu, stopCh, gpath, gtodo, gsess, gsize, gpos,
                   gret, gev, events, nScans, matched>>

\* NewSessionWatcher, lines 53-66, on a directory without session files.
InitWatcherVars ==
    /\ files = [p \in Paths |-> [state |-> "absent", data |-> <<>>]]
    /\ nAppends = 0
    /\ fsEvents = <<>>
    /\ watchedPaths = FALSE
    /\ activeSessions = [p \in Paths |-> NoTail]
    /\ tails = <<>>
    /\ mu = NoOne
    /\ stopCh = FALSE
    /\ gpc = [g \in Goroutines |-> IF g = "main" THEN "idle" ELSE "unstarted"]
    /\ gpath = [g \in Goroutines |-> 1]
    /\ gtodo = [g \in Goroutines |-> <<>>]
    /\ gsess = [g \in Goroutines |-> NoTail]
    /\ gsize = [g \in Goroutines |-> 0]
    /\ gpos = [g \in Goroutines |-> 0]
    /\ gret = [g \in Goroutines |-> "none"]
    /\ gev = [g \in Goroutines |-> SessionStart(1)]
    /\ events = <<>>
    /\ nScans = 0
    /\ matched = {}

-----------------------------------------------------------------------------
(* The status file.  A file is an inode; a name of the audit directory      *)
(* refers to one.  The k-th status document is DocLen bytes k.              *)

\* json.MarshalIndent of the k-th status.
StatusDoc(k) == [i \in 1..DocLen |-> k]

\* A writer that writes the status file in place.
WriteInPlace == "daemon.status"

\* writeStatusFile, line 423: the name os.WriteFile is given.
TmpFile == "daemon.status.tmp"

\* writeStatus, lines 387-388: the ticker fires; writeStatusFile, lines
\* 395-421 build and marshal the document.
StatusMarshal ==
    /\ stpc = "idle"
    /\ nStatus < MaxStatusWrites
    /\ nStatus' = nStatus + 1
    /\ stpc' = "open"
    /\ UNCHANGED <<nonStatusVars, inodes, dirEntry, stfd, gspc, gsfd, gsSeen>>

\* os.WriteFile, line 424: open with O_CREATE|O_TRUNC makes the file or
\* empties the one the name refers to.
StatusOpen ==
    /\ stpc = "open"
    /\ IF dirEntry[TmpFile] = NoFile
       THEN /\ inodes' = Append(inodes, <<>>)
            /\ dirEntry' = [dirEntry EXCEPT ![TmpFile] = Len(inodes) + 1]
            /\ stfd' = Len(inodes) + 1
       ELSE /\ inodes' = [inodes EXCEPT ![dirEntry[TmpFile]] = <<>>]
            /\ stfd' = dirEntry[TmpFile]
            /\ UNCHANGED dirEntry
    /\ stpc' = "write"
    /\ UNCHANGED <<nonStatusVars, nStatus, gspc, gsfd, gsSeen>>

\* os.WriteFile, line 424: a write call stores some more bytes of the
\* document; after the last the file is closed.
StatusWrite ==
    /\ stpc = "write"
    /\ LET have == Len(inodes[stfd])
       IN \E n \in 1..(DocLen - have) :
              /\ inodes' = [inodes EXCEPT ![stfd] =
                               @ \o SubSeq(StatusDoc(nStatus), have + 1, have + n)]
              /\ stpc' = IF have + n = DocLen THEN "rename" ELSE "write"
    /\ UNCHANGED <<nonStatusVars, dirEntry, stfd, nStatus, gspc, gsfd, gsSeen>>

\* os.Rename, line 427: the status name now refers to the written file.
StatusRename ==
    /\ stpc = "rename"
    /\ dirEntry' = IF TmpFile = "daemon.status" THEN dirEntry
                   ELSE [dirEntry EXCEPT !["daemon.status"] = dirEntry[TmpFile],
                                         ![TmpFile] = NoFile]
    /\ stpc' = "idle"
    /\ UNCHANGED <<nonStatusVars, inodes, stfd, nStatus, gspc, gsfd, gsSeen>>

\* writeStatus, lines 385-386, and Stop, line 234: the writer has returned
\* on ctx.Done() and os.Remove deletes the status file.
StatusRemove ==
    /\ stpc = "idle"
    /\ dirEntry' = [dirEntry EXCEPT !["daemon.status"] = NoFile]
    /\ stpc' = "stopped"
    /\ UNCHANGED <<nonStatusVars, inodes, stfd, nStatus, gspc, gsfd, gsSeen>>

\* GetStatus, lines 460-465: os.ReadFile opens the status file; a missing
\* file is reported as status "stopped".
GetStatusOpen ==
    /\ gspc = "idle"
    /\ IF dirEntry["daemon.status"] = NoFile
       THEN /\ gsSeen' = gsSeen \cup {[status |-> "stopped", data |-> <<>>]}
            /\ UNCHANGED <<gspc, gsfd>>
       ELSE /\ gsfd' = dirEntry["daemon.status"]
            /\ gspc' = "read"
            /\ UNCHANGED gsSeen
    /\ UNCHANGED <<nonStatusVars, inodes, dirEntry, stpc, stfd, nStatus>>

\* GetStatus, lines 460-472: os.ReadFile reads the open file to its end and
\* the bytes are unmarshalled.
GetStatusRead ==
    /\ gspc = "read"
    /\ gsSeen' = gsSeen \cup {[status |-> "read", data |-> inodes[gsfd]]}
    /\ gspc' = "idle"
    /\ UNCHANGED <<nonStatusVars, inodes, dirEntry, stpc, stfd, nStatus, gsfd>>

\* NewCaptureDaemon, line 157: no status file has been written yet.
InitStatusVars ==
    /\ inodes = <<>>
    /\ dirEntry = [n \in {"daemon.status", "daemon.status.tmp"} |-> NoFile]
    /\ stpc = "idle"
    /\ stfd = NoFile
    /\ nStatus = 0
    /\ gspc = "idle"
    /\ gsfd = NoFile
    /\ gsSeen = {}

-----------------------------------------------------------------------------
(* FilteredStream's wrapped handler.  A line is what json.Unmarshal into a   *)
(* map makes of it: text that is not JSON, JSON that is not an object, the   *)
(* JSON null, or an object whose "session", "tool" and "timestamp" members   *)
(* are absent, of another type, or a string / a number.                      *)

Absent == "absent"
OtherType == "other"
NoTime == -1

\* A "timestamp" member: absent, of another type, or a number.
NoTimestamp == [is |-> Absent, unix |-> 0]

Timestamps ==
    {NoTimestamp, [is |-> OtherType, unix |-> 0]}
    \cup {[is |-> "number", unix |-> t] : t \in 0..MaxTime}

\* The lines that do not unmarshal, the null, and the objects.
FilterLines ==
    {[kind |-> k, session |-> Absent, tool |-> Absent, timestamp |-> NoTimestamp] :
        k \in {"invalid", "nonobject", "null"}}
    \cup [kind : {"object"},
          session : {Absent, OtherType, "s1", "s2"},
          tool : {Absent, OtherType, "t1", "t2"},
          timestamp : Timestamps]

\* The filters: an empty string and a zero time switch a criterion off.
Filters ==
    [SessionID : {"", "s1"}, Tool : {"", "t1"},
     StartTime : {NoTime} \cup 0..MaxTime, EndTime : {NoTime} \cup 0..MaxTime]

\* json.Unmarshal(line, &event), line 290, returns an error.
UnmarshalFails(line) == line.kind \in {"invalid", "nonobject"}

\* event[key].(string) succeeds and gives another value than want.
OtherString(v, want) == v \notin {Absent, OtherType} /\ v # want

\* event["timestamp"].(float64) succeeds.
IsNumber(v) == v.is = "number"

\* A wrapped handler that skips a line it cannot parse.
SkipUnparsed(line) == [called |-> FALSE, line |-> line]

\* Lines 290-293: the line goes to the handler as it is.
LetThrough(line) == [called |-> TRUE, line |-> line]

\* Lines 295-326: the criteria that make the wrapped handler skip the line.
Skipped(filter, line) ==
    \/ filter.SessionID # "" /\ OtherString(line.session, filter.SessionID)
    \/ filter.Tool # "" /\ OtherString(line.tool, filter.Tool)
    \/ /\ filter.StartTime # NoTime
       /\ IsNumber(line.timestamp)
       /\ line.timestamp.unix < filter.StartTime
    \/ /\ filter.EndTime # NoTime
       /\ IsNumber(line.timestamp)
       /\ line.timestamp.unix > filter.EndTime

\* FilteredStream, lines 285-329: Stream hands a line to the wrapped handler.
FilteredStreamCall ==
    /\ fpc = "idle"
    /\ \E f \in Filters, l \in FilterLines : ffilter' = f /\ fline' = l
    /\ fpc' = "handling"
    /\ UNCHANGED <<nonFilterVars, fout>>

\* The wrapped handler, lines 287-327.
FilteredHandler ==
    /\ fpc = "handling"
    /\ fout' = IF UnmarshalFails(fline) THEN LetThrough(fline)
               ELSE IF Skipped(ffilter, fline) THEN [called |-> FALSE, line |-> fline]
               ELSE [called |-> TRUE, line |-> fline]
    /\ fpc' = "done"
    /\ UNCHANGED <<nonFilterVars, ffilter, fline>>

InitFilterVars ==
    /\ fpc = "idle"
    /\ ffilter = [SessionID |-> "", Tool |-> "", StartTime |-> NoTime, EndTime |-> NoTime]
    /\ fline = [kind |-> "null", session |-> Absent, tool |-> Absent, timestamp |-> NoTimestamp]
    /\ fout = [called |-> FALSE, line |-> fline]

-----------------------------------------------------------------------------
(* ShardIterators over a directory left by earlier runs.  The j-th line of  *)
(* the shard named n carries the payload n * (MaxShardLines + 1) + j.       *)

ShardLine(n, j) == <<n * (MaxShardLines + 1) + j, NL>>

\* The first k lines of shard n, one after the other.
RECURSIVE ShardPrefix(_, _)
ShardPrefix(n, k) == IF k = 0 THEN <<>> ELSE ShardPrefix(n, k - 1) \o ShardLine(n, k)

\* What the shard file n can hold: whole lines, and after them possibly the
\* first bytes of a line whose rest never left the writer's buffer.
ShardContents(n) ==
    [k \in 0..MaxShardLines, cut \in BOOLEAN |->
        IF cut THEN ShardPrefix(n, k) \o <<n * (MaxShardLines + 1) + k + 1>>
        ELSE ShardPrefix(n, k)]

\* A listing in descending order.
RECURSIVE Descending(_)
Descending(S) ==
    IF S = {} THEN <<>>
    ELSE LET m == CHOOSE x \in S : \A y \in S : x >= y
         IN <<m>> \o Descending(S \ {m})

\* NewShardIterator, line 79: sort.Strings(shards).
SortStrings(S) == SortedSeq(S)

\* Earlier runs of the logger left shard files in the directory.
PopulateDirectory ==
    /\ logger = "absent"
    /\ shardFiles = {}
    /\ \A i \in Iterators : ~iters[i].made
    /\ \E S \in SUBSET Names :
           /\ S # {}
           /\ shardFiles' = S
           /\ \E k \in [S -> 0..MaxShardLines], cut \in [S -> BOOLEAN] :
                  disk' = [n \in Names |-> IF n \in S THEN ShardContents(n)[k[n], cut[n]]
                                          ELSE <<>>]
    /\ UNCHANGED <<nonLogVars, clock, currentShard, rotationMutex, wpc, wline, wshard,
                   nWrites, written, created, logger, streamVars>>

\* NewShardIterator, lines 71-85.
NewShardIterator(i) ==
    /\ ~iters[i].made
    /\ iters' = [iters EXCEPT ![i] = [made |-> TRUE,
                                      shards |-> SortStrings(shardFiles),
                                      currentIndex |-> -1,
                                      currentShard |-> NoShard,
                                      off |-> 0]]
    /\ UNCHANGED <<nonIterVars, itOut, itEofs>>

\* ShardIterator.Next, lines 88-117: the iterator after the call, and the
\* line and the error the call returns.  A read that ends in io.EOF closes
\* the shard, whatever bytes came with it, and the loop moves on.
RECURSIVE IterNext(_)
IterNext(it) ==
    LET r == ReadLine(it.currentShard, it.off)
        idx == it.currentIndex + 1
    IN IF it.currentShard # NoShard /\ r.err = "nil"
       THEN [it |-> [it EXCEPT !.off = r.off], line |-> r.line, err |-> "nil"]
       ELSE IF idx >= Len(it.shards)
            THEN [it |-> [it EXCEPT !.currentShard = NoShard, !.off = 0,
                                    !.currentIndex = idx],
                  line |-> <<>>, err |-> "EOF"]
            ELSE IterNext([it EXCEPT !.currentIndex = idx,
                                     !.currentShard = it.shards[idx + 1],
                                     !.off = 0])

\* One call of Next on iterator i.
Next(i) ==
    /\ iters[i].made
    /\ itEofs[i] < MaxEofCalls
    /\ LET n == IterNext(iters[i])
       IN /\ iters' = [iters EXCEPT ![i] = n.it]
          /\ IF n.err = "nil"
             THEN /\ itOut' = [itOut EXCEPT ![i] = Append(@, n.line)]
                  /\ UNCHANGED itEofs
             ELSE /\ itEofs' = [itEofs EXCEPT ![i] = @ + 1]
                  /\ UNCHANGED itOut
    /\ UNCHANGED nonIterVars

InitIterVars ==
    /\ iters = [i \in Iterators |-> [made |-> FALSE, shards |-> <<>>, currentIndex |-> -1,
                                     currentShard |-> NoShard, off |-> 0]]
    /\ itOut = [i \in Iterators |-> <<>>]
    /\ itEofs = [i \in Iterators |-> 0]

-----------------------------------------------------------------------------
(* The life of one CaptureDaemon.  Its owner calls Start, Stop and Run one  *)
(* after the other; the watched directories hold no session file and        *)
(* writing the PID file succeeds.  The three processEvents workers leave    *)
(* on the same conditions and are one task here.                            *)

\* Start, line 169: what isRunning finds.  The PID file of this daemon names
\* this process, which is alive.
OwnPIDFileFound == lpid

\* A call of Start (run = FALSE) or of Run begins.
LifeStartCall(run) ==
    /\ lpc = "idle"
    /\ nCalls < MaxCalls
    /\ nCalls' = nCalls + 1
    /\ lrun' = run
    /\ lpc' = "isRunning"
    /\ UNCHANGED <<nonLifeVars, lstate, lctx, lstopCh, lqueue, lpid, lrunning>>

\* Start, lines 169-171: refuse when isRunning finds a live daemon; Run
\* returns that error (lines 241-243).
LifeIsRunning ==
    /\ lpc = "isRunning"
    /\ IF OwnPIDFileFound
       THEN /\ lpc' = "idle"
            /\ lstate' = lstate
       ELSE /\ lpc' = "writePID"
            /\ lstate' = "Starting"
    /\ UNCHANGED <<nonLifeVars, lrun, lctx, lstopCh, lqueue, lpid, lrunning, nCalls>>

\* Start, lines 174-176: writePIDFile.
LifeWritePID ==
    /\ lpc = "writePID"
    /\ lpid' = TRUE
    /\ lpc' = "launch"
    /\ UNCHANGED <<nonLifeVars, lrun, lstate, lctx, lstopCh, lqueue, lrunning, nCalls>>

\* Start, lines 179-208: the directories are registered, the watcher's two
\* loops, the workers and the status writer are launched, Start returns nil.
\* Run goes on to its select.
LifeLaunch ==
    /\ lpc = "launch"
    /\ lrunning' = lrunning \cup LoopTasks \cup WorkerTasks
    /\ lstate' = "Running"
    /\ lpc' = IF lrun THEN "runWait" ELSE "idle"
    /\ UNCHANGED <<nonLifeVars, lrun, lctx, lstopCh, lqueue, lpid, nCalls>>

\* watchLoop and tailLoop return when stopCh is closed (watcher.go:166, 204);
\* processEvents and writeStatus return when the context is cancelled
\* (lines 289, 385).
LifeTaskExit(t) ==
    /\ t \in lrunning
    /\ IF t \in LoopTasks THEN lstopCh ELSE lctx
    /\ lrunning' = lrunning \ {t}
    /\ UNCHANGED <<nonLifeVars, lpc, lrun, lstate, lctx, lstopCh, lqueue, lpid, nCalls>>

\* Run, lines 249-256: a signal arrives or the context is cancelled already,
\* and Run calls Stop.
LifeRunStop ==
    /\ lpc = "runWait"
    /\ lpc' = "cancel"
    /\ lstate' = "Stopping"
    /\ UNCHANGED <<nonLifeVars, lrun, lctx, lstopCh, lqueue, lpid, lrunning, nCalls>>

\* A call of Stop begins.
LifeStopCall ==
    /\ lpc = "idle"
    /\ nCalls < MaxCalls
    /\ nCalls' = nCalls + 1
    /\ lrun' = FALSE
    /\ lpc' = "cancel"
    /\ lstate' = "Stopping"
    /\ UNCHANGED <<nonLifeVars, lctx, lstopCh, lqueue, lpid, lrunning>>

\* Stop, line 214: d.cancel().
LifeCancel ==
    /\ lpc = "cancel"
    /\ lctx' = TRUE
    /\ lpc' = "stopWatcher"
    /\ UNCHANGED <<nonLifeVars, lrun, lstate, lstopCh, lqueue, lpid, lrunning, nCalls>>

\* close(ch): closing a closed channel panics and the process ends.
CloseChannel(closed, next) == IF closed THEN "panicked" ELSE next

\* Stop, line 217, and SessionWatcher.Stop, line 146: close(w.stopCh).
LifeStopWatcher ==
    /\ lpc = "stopWatcher"
    /\ lpc' = CloseChannel(lstopCh, "waitWatcher")
    /\ lstopCh' = TRUE
    /\ lrunning' = IF lpc' = "panicked" THEN {} ELSE lrunning
    /\ UNCHANGED <<nonLifeVars, lrun, lstate, lctx, lqueue, lpid, nCalls>>

\* SessionWatcher.Stop, lines 147-157: w.wg.Wait() returns when both loops
\* have; the files and the notifier are closed.
LifeWaitWatcher ==
    /\ lpc = "waitWatcher"
    /\ lrunning \cap LoopTasks = {}
    /\ lpc' = "closeQueue"
    /\ UNCHANGED <<nonLifeVars, lrun, lstate, lctx, lstopCh, lqueue, lpid, lrunning, nCalls>>

\* Stop, line 222: close(d.eventQueue).
LifeCloseQueue ==
    /\ lpc = "closeQueue"
    /\ lpc' = CloseChannel(lqueue, "waitWorkers")
    /\ lqueue' = TRUE
    /\ lrunning' = IF lpc' = "panicked" THEN {} ELSE lrunning
    /\ UNCHANGED <<nonLifeVars, lrun, lstate, lctx, lstopCh, lpid, nCalls>>

\* Stop, lines 225-236: d.wg.Wait() returns when the workers and the status
\* writer have; the logger is closed, the PID and status files are removed,
\* Stop returns nil.
LifeStopReturn ==
    /\ lpc = "waitWorkers"
    /\ lrunning \cap WorkerTasks = {}
    /\ lpid' = FALSE
    /\ lstate' = "Stopped"
    /\ lpc' = "idle"
    /\ UNCHANGED <<nonLifeVars, lrun, lctx, lstopCh, lqueue, lrunning, nCalls>>

\* NewCaptureDaemon, lines 144-158: open channels, a live context, no task.
InitLifeVars ==
    /\ lpc = "idle"
    /\ lrun = FALSE
    /\ lstate = "Stopped"
    /\ lctx = FALSE
    /\ lstopCh = FALSE
    /\ lqueue = FALSE
    /\ lpid = FALSE
    /\ lrunning = {}
    /\ nCalls = 0

\* NewCaptureDaemon, lines 128-132: the daemon's logger is open.
InitShutdownVars == loggerClosed = FALSE

\* No logger yet: no shard is open; the file system does not fail.
InitHandleVars ==
    /\ openShards = {}
    /\ writerErr = FALSE
    /\ faulty = FALSE

-----------------------------------------------------------------------------
(* The log: writers, the flush ticker, the clock and one Stream call *)

InitLogVars ==
    /\ clock = 0
    /\ shardFiles = {}
    /\ disk = [n \in Names |-> <<>>]
    /\ currentShard = [path |-> NoShard, size |-> 0, buf |-> <<>>, closed |-> TRUE]
    /\ rotationMutex = NoOne
    /\ wpc = [w \in Writers |-> "idle"]
    /\ wline = [w \in Writers |-> <<>>]
    /\ wshard = [w \in Writers |-> NoShard]
    /\ nWrites = 0
    /\ written = <<>>
    /\ created = <<>>
    /\ logger = "absent"
    /\ spc = "init"
    /\ itShards = <<>>
    /\ itIdx = -1
    /\ rdPath = NoShard
    /\ rdOff = 0
    /\ tailPath = NoShard
    /\ delivered = <<>>
    /\ tailed = <<>>
    /\ loggerAtStart = "absent"
    /\ stopCalled = FALSE
    /\ handlerErrs = 0

\* NewAuditLogger, lines 47-54: the maxShardSize argument.
InitConfigVars == maxShardSize = MaxShardSize

InitLog ==
    /\ InitLogVars /\ InitDaemonVars /\ InitPidVars /\ InitWatcherVars /\ InitStatusVars
    /\ InitFilterVars
    /\ InitConfigVars
    /\ InitSnapshotVars
    /\ InitShutdownVars
    /\ InitHandleVars
    /\ InitLifeVars
    /\ InitIterVars

\* One client writes; Stream(handler, false) replays the history.
InitReplay == InitLog /\ follow = FALSE

NextReplay ==
    \/ NewAuditLogger
    \/ WriteBegin("w1")
    \/ RotateClose("w1")
    \/ RotateCreate("w1")
    \/ WriteLine("w1")
    \/ BackgroundFlush
    \/ Close
    \/ Tick
    \/ StreamStart
    \/ HistoryRead
    \/ HistoryAdvance

SpecReplay == InitReplay /\ [][NextReplay]_vars

\* The flush ticker keeps firing and a call that holds the mutex goes on to
\* its Unlock.
FairSpecReplay ==
    /\ SpecReplay
    /\ WF_vars(BackgroundFlush)
    /\ WF_vars(RotateClose("w1") \/ RotateCreate("w1") \/ WriteLine("w1"))

\* One client writes; Stream(handler, true) replays and then tails.
InitTail == InitLog /\ follow = TRUE

NextTail ==
    \/ NextReplay
    \/ FollowNewEntries
    \/ TailOpen
    \/ TailTick
    \/ TailRead
    \/ TailLookup
    \/ StreamerStop
    \/ StreamStopped

SpecTail == InitTail /\ [][NextTail]_vars

\* The steps of the goroutine that runs Stream, but for the stopCh cases.
StreamStep ==
    \/ StreamStart
    \/ HistoryRead
    \/ HistoryAdvance
    \/ FollowNewEntries
    \/ TailOpen
    \/ TailTick
    \/ TailRead
    \/ TailLookup

\* Stream(handler, true) on a logger that stays open while Stop is called.
NextLive ==
    \/ NewAuditLogger
    \/ WriteBegin("w1")
    \/ RotateClose("w1")
    \/ RotateCreate("w1")
    \/ WriteLine("w1")
    \/ BackgroundFlush
    \/ Tick
    \/ StreamStep
    \/ StreamerStop
    \/ StreamStopped

SpecLive == InitTail /\ [][NextLive]_vars

\* A logger whose shards hold more than its 64 KiB writers buffer: a line
\* that crosses the end of the buffer reaches the file in two parts.
LargeShardSize == WriterBufSize + 1

InitLargeShards ==
    /\ InitLogVars /\ InitDaemonVars /\ InitPidVars /\ InitWatcherVars /\ InitStatusVars
    /\ InitFilterVars /\ InitSnapshotVars /\ InitShutdownVars /\ InitHandleVars
    /\ InitLifeVars /\ InitIterVars
    /\ maxShardSize = LargeShardSize
    /\ follow = TRUE

SpecLargeShards == InitLargeShards /\ [][NextLive]_vars

\* Stream keeps running, and a select that finds stopCh ready again and
\* again takes that case in the end (Go chooses among ready cases at random).
FairSpecLive == SpecLive /\ WF_vars(StreamStep) /\ SF_vars(StreamStopped)

\* The writer's calls go on to their Unlock and the flush ticker keeps
\* firing while Stream runs; Stop may be called but need not be taken.
FairSpecFollow ==
    /\ SpecLive
    /\ WF_vars(StreamStep)
    /\ WF_vars(BackgroundFlush)
    /\ WF_vars(RotateClose("w1") \/ RotateCreate("w1") \/ WriteLine("w1"))

\* Stream called with either value of follow.
InitStream == InitLog /\ follow \in BOOLEAN

SpecStream == InitStream /\ [][NextTail]_vars

\* Two workers call WriteRawLine and WriteEvent on one logger.
InitWriters == InitLog /\ follow = FALSE

NextWriters ==
    \/ NewAuditLogger
    \/ \E w \in Writers : WriteEventBegin(w)
    \/ \E w \in Writers : WriteBegin(w)
    \/ \E w \in Writers : RotateClose(w)
    \/ \E w \in Writers : RotateCreate(w)
    \/ \E w \in Writers : WriteLine(w)
    \/ BackgroundFlush
    \/ Close
    \/ Tick

SpecWriters == InitWriters /\ [][NextWriters]_vars

\* One client writes and closes in any order, on a file system that may
\* fail any write, close or create.
InitFaulty ==
    /\ InitLogVars /\ InitDaemonVars /\ InitPidVars /\ InitWatcherVars /\ InitStatusVars
    /\ InitFilterVars /\ InitLifeVars /\ InitIterVars /\ InitShutdownVars /\ InitConfigVars /\ InitSnapshotVars
    /\ openShards = {}
    /\ writerErr = FALSE
    /\ faulty = TRUE
    /\ follow = FALSE

NextFaulty ==
    \/ NewAuditLogger
    \/ WriteBegin("w1")
    \/ WriteAfterClose("w1")
    \/ RotateClose("w1")
    \/ RotateCreate("w1")
    \/ WriteLine("w1")
    \/ BackgroundFlush
    \/ Close
    \/ CloseAgain
    \/ Tick

SpecFaulty == InitFaulty /\ [][NextFaulty]_vars

-----------------------------------------------------------------------------
(* Claims about the log *)

\* The lines WriteRawLine accepted, in write order, without the empty ones.
WrittenLines ==
    LET all == [i \in 1..Len(written) |-> written[i].line]
    IN SelectSeq(all, LAMBDA l : Len(l) > 0)

\* No two shards of the run were given the same name.
NamesDistinct == \A k \in 1..Len(created) : created[k]

\* C1: in follow mode, once the tail loop has gone from shard A to a later
\* shard B, every line written to A has been handed to the handler before
\* the first line of B (stated for runs whose shards have distinct names).
C1_DrainBeforeSwitch ==
    NamesDistinct =>
        \A a, b \in 1..Len(tailed) :
            a < b =>
                \A i, m \in 1..Len(written) :
                    ( /\ written[i].shard = tailed[a]
                      /\ written[m].shard = tailed[b]
                      /\ Len(written[i].line) > 0 ) =>
                        \A p \in 1..Len(delivered) :
                            delivered[p] = written[m].line =>
                                \E q \in 1..(p - 1) : delivered[q] = written[i].line

\* C2: a fresh iterator made after Close returns exactly the accepted lines,
\* in write order, and then end-of-stream.
C2_ReplayIsWritten ==
    (spc = "returned" /\ loggerAtStart = "closed") => delivered = WrittenLines

\* The bytes written to the shard file named n since it was last created.
RECURSIVE Concat(_)
Concat(ss) == IF ss = <<>> THEN <<>> ELSE Head(ss) \o Concat(Tail(ss))

LinesOfShard(n) ==
    LET mine == SelectSeq(written, LAMBDA r : r.shard = n)
    IN Concat([i \in 1..Len(mine) |-> mine[i].line])

ShardBytes(n) ==
    IF n = currentShard.path THEN disk[n] \o currentShard.buf ELSE disk[n]

\* C6: every rotation adds exactly one shard file, and every accepted line,
\* the one whose write rotated included, lies whole in the shard that was
\* current when it was written.
C6_RotationAddsOneShard ==
    /\ Cardinality(shardFiles) = Len(created)
    /\ \A n \in shardFiles : ShardBytes(n) = LinesOfShard(n)

-----------------------------------------------------------------------------
(* The daemon after a successful Start: the watcher's two loops call        *)
(* handleEvent, three workers drain the queue, Stop is called once.        *)

InitDaemon ==
    /\ InitDaemonVars /\ InitLogVars /\ InitPidVars /\ InitWatcherVars /\ InitStatusVars
    /\ InitFilterVars
    /\ InitConfigVars
    /\ InitSnapshotVars
    /\ InitShutdownVars
    /\ InitHandleVars
    /\ InitLifeVars
    /\ InitIterVars
    /\ follow = FALSE

NextDaemon ==
    \/ \E g \in Producers : HandleEventBegin(g)
    \/ \E g \in Producers : HandleSelect(g)
    \/ \E g \in Producers : HandleBlockedSend(g)
    \/ \E g \in Producers : HandleTimeout(g)
    \/ \E g \in Producers : ProducerExit(g)
    \/ \E k \in Workers : WorkerCtxDone(k)
    \/ \E k \in Workers : WorkerReceive(k)
    \/ \E k \in Workers : WorkerQueueClosed(k)
    \/ \E k \in Workers : WorkerTick(k)
    \/ StopCancel
    \/ StopWatcherSignal
    \/ StopCloseQueue
    \/ StopReturn

SpecDaemon == InitDaemon /\ [][NextDaemon]_vars

\* The daemon with its writeStatus task followed.
InitSnapshot ==
    /\ InitDaemonVars /\ InitLogVars /\ InitPidVars /\ InitWatcherVars /\ InitStatusVars
    /\ InitFilterVars /\ InitShutdownVars /\ InitConfigVars /\ InitHandleVars /\ InitLifeVars /\ InitIterVars
    /\ snpc = "idle"
    /\ snap = [received |-> 0, processed |-> 0, dropped |-> 0]
    /\ statusMetrics = <<>>
    /\ nSnaps = 0
    /\ follow = FALSE

\* Only the notification loop delivers events.
NextSnapshot ==
    \/ HandleEventBegin("watchLoop")
    \/ HandleSelect("watchLoop")
    \/ HandleBlockedSend("watchLoop")
    \/ HandleTimeout("watchLoop")
    \/ \E k \in Workers : WorkerReceive(k)
    \/ \E k \in Workers : WorkerTick(k)
    \/ \E k \in Workers : WorkerCtxDone(k)
    \/ StopCancel
    \/ WriteStatusTick
    \/ MarshalCounter
    \/ WriteStatusFile
    \/ WriteStatusExit

SpecSnapshot == InitSnapshot /\ [][NextSnapshot]_vars

\* The goroutines that run the event callback: the two loops of the watcher
\* and the caller of Start, whose WatchDirectory scans the directories.
Callers == Producers \cup {"scan"}

\* Start, lines 179-208: the scans of WatchDirectory are over; the loops of
\* the watcher and the workers are started and Start returns.
StartReturn ==
    /\ dpc = "starting"
    /\ hpc["scan"] = "idle"
    /\ hpc' = [g \in Callers |-> IF g = "scan" THEN "exited" ELSE "idle"]
    /\ wkpc' = [k \in Workers |-> "run"]
    /\ dpc' = "running"
    /\ UNCHANGED <<nonDaemonVars, eventQueue, queueClosed, ctxDone, watcherStopCh,
                   metrics, hev, nEvents, ret, batch, flushed, flushLog>>

\* NewCaptureDaemon has returned and Start is in its directory scans: no
\* loop and no worker runs yet.
InitShutdown ==
    /\ InitLogVars /\ InitPidVars /\ InitWatcherVars /\ InitStatusVars
    /\ InitFilterVars /\ InitSnapshotVars /\ InitShutdownVars /\ InitConfigVars
    /\ InitHandleVars /\ InitLifeVars /\ InitIterVars
    /\ eventQueue = <<>>
    /\ queueClosed = FALSE
    /\ ctxDone = FALSE
    /\ watcherStopCh = FALSE
    /\ metrics = [received |-> 0, processed |-> 0, dropped |-> 0]
    /\ hpc = [g \in Callers |-> IF g = "scan" THEN "idle" ELSE "unstarted"]
    /\ hev = [g \in Callers |-> 0]
    /\ nEvents = 0
    /\ ret = [e \in Events |-> "none"]
    /\ wkpc = [k \in Workers |-> "unstarted"]
    /\ batch = [k \in Workers |-> <<>>]
    /\ flushed = {}
    /\ flushLog = <<>>
    /\ dpc = "starting"
    /\ follow = FALSE

\* Start, then the running daemon, then Stop, which the callers of Start
\* call from the goroutine that called Start.
NextShutdown ==
    \/ \E g \in Callers : HandleEventBegin(g)
    \/ \E g \in Callers : HandleSelect(g)
    \/ \E g \in Callers : HandleBlockedSend(g)
    \/ \E g \in Callers : HandleTimeout(g)
    \/ StartReturn
    \/ \E g \in Producers : ProducerExit(g)
    \/ \E k \in Workers : WorkerCtxDone(k)
    \/ \E k \in Workers : WorkerReceive(k)
    \/ \E k \in Workers : WorkerQueueClosed(k)
    \/ \E k \in Workers : WorkerTick(k)
    \/ StopCancel
    \/ StopWatcherSignal
    \/ StopCloseQueue
    \/ StopReturn

SpecShutdown == InitShutdown /\ [][NextShutdown]_vars

\* The same daemon with a logger whose writes may fail.
InitDaemonFaulty ==
    /\ InitDaemonVars /\ InitLogVars /\ InitPidVars /\ InitWatcherVars /\ InitStatusVars
    /\ InitFilterVars /\ InitShutdownVars /\ InitConfigVars /\ InitSnapshotVars /\ InitLifeVars /\ InitIterVars
    /\ openShards = {}
    /\ writerErr = FALSE
    /\ faulty = TRUE
    /\ follow = FALSE

\* Stop is followed as far as its d.cancel(); only the notification loop
\* delivers events, and it waits less than the 100 ms of the timeout for
\* room in the queue.
NextDaemonFaulty ==
    \/ HandleEventBegin("watchLoop")
    \/ HandleSelect("watchLoop")
    \/ HandleBlockedSend("watchLoop")
    \/ \E k \in Workers : WorkerReceive(k)
    \/ \E k \in Workers : WorkerTick(k)
    \/ \E k \in Workers : WorkerCtxDone(k)
    \/ StopCancel

SpecDaemonFaulty == InitDaemonFaulty /\ [][NextDaemonFaulty]_vars

-----------------------------------------------------------------------------
(* Daemon processes starting and stopping on one audit directory *)

InitPid ==
    /\ InitPidVars /\ InitLogVars /\ InitDaemonVars /\ InitWatcherVars /\ InitStatusVars
    /\ InitFilterVars
    /\ InitConfigVars
    /\ InitSnapshotVars
    /\ InitShutdownVars
    /\ InitHandleVars
    /\ InitLifeVars
    /\ InitIterVars
    /\ follow = FALSE

NextPid ==
    \/ \E d \in Daemons : StartCheck(d)
    \/ \E d \in Daemons : WritePIDOpen(d)
    \/ \E d \in Daemons : WritePIDData(d)
    \/ \E d \in Daemons : StartLaunch(d)
    \/ \E d \in Daemons : StopRemovePID(d)
    \/ \E d \in Daemons : Kill(d)

SpecPid == InitPid /\ [][NextPid]_vars

\* The first process has a daemon with its logger and starts it; its worker
\* writes lines; the second process constructs a daemon for the same audit
\* directory and starts it.
InitInstances ==
    /\ InitLogVars /\ InitDaemonVars /\ InitWatcherVars /\ InitStatusVars
    /\ InitFilterVars /\ InitShutdownVars /\ InitConfigVars /\ InitSnapshotVars /\ InitHandleVars /\ InitLifeVars
    /\ InitIterVars
    /\ follow = FALSE
    /\ pidFile = [exists |-> FALSE, pid |-> 0]
    /\ alive = Daemons
    /\ startpc = [d \in Daemons |-> IF d = 1 THEN "start" ELSE "new"]

NextInstances ==
    \/ NewAuditLogger
    \/ WriteBegin("w1")
    \/ RotateClose("w1")
    \/ RotateCreate("w1")
    \/ WriteLine("w1")
    \/ BackgroundFlush
    \/ Tick
    \/ \E d \in Daemons : StartCheck(d)
    \/ \E d \in Daemons : WritePIDOpen(d)
    \/ \E d \in Daemons : WritePIDData(d)
    \/ \E d \in Daemons : StartLaunch(d)
    \/ NewCaptureDaemon(2)

SpecInstances == InitInstances /\ [][NextInstances]_vars

-----------------------------------------------------------------------------
(* The watcher: tools create, append to and delete session files while the *)
(* owner calls WatchDirectory, Start and Stop.                             *)

InitWatcher ==
    /\ InitWatcherVars /\ InitLogVars /\ InitDaemonVars /\ InitPidVars /\ InitStatusVars
    /\ InitFilterVars
    /\ InitConfigVars
    /\ InitSnapshotVars
    /\ InitShutdownVars
    /\ InitHandleVars
    /\ InitLifeVars
    /\ InitIterVars
    /\ follow = FALSE

\* The steps of the goroutine that calls the watcher's methods.
MainStep ==
    \/ WatchDirectoryLock
    \/ WatchDirectoryScan
    \/ StartTailingLock("main")
    \/ StartTailingOpen("main")
    \/ StartTailingRelock("main")
    \/ ReadNewLines("main")
    \/ NotifyHandlers("main")
    \/ WatcherStopWait
    \/ WatcherStopCloseFiles

\* The steps of the watchLoop goroutine.
WatchLoopStep ==
    \/ WatchLoopStop
    \/ WatchLoopEvent
    \/ HandleFileWrite
    \/ StartTailingLock("watchLoop")
    \/ StartTailingOpen("watchLoop")
    \/ StartTailingRelock("watchLoop")
    \/ StopTailing
    \/ ReadNewLines("watchLoop")
    \/ NotifyHandlers("watchLoop")

\* The steps of the tailLoop goroutine.
TailLoopStep ==
    \/ TailLoopStop
    \/ TailLoopTick
    \/ CheckAllSessions
    \/ CheckNextSession
    \/ ReadNewLines("tailLoop")
    \/ NotifyHandlers("tailLoop")

NextWatcher ==
    \/ \E p \in Paths : FsCreate(p)
    \/ \E p \in Paths : FsAppend(p)
    \/ \E p \in Paths : FsRemove(p)
    \/ WatchDirectoryCall
    \/ WatchDirectoryLock
    \/ WatchDirectoryScan
    \/ \E g \in Goroutines : StartTailingLock(g)
    \/ \E g \in Goroutines : StartTailingOpen(g)
    \/ \E g \in Goroutines : StartTailingRelock(g)
    \/ \E g \in Goroutines : ReadNewLines(g)
    \/ \E g \in Goroutines : NotifyHandlers(g)
    \/ WatcherStart
    \/ WatchLoopStop
    \/ WatchLoopEvent
    \/ HandleFileWrite
    \/ StopTailing
    \/ TailLoopStop
    \/ TailLoopTick
    \/ CheckAllSessions
    \/ CheckNextSession
    \/ WatcherStopClose
    \/ WatcherStopWait
    \/ WatcherStopCloseFiles

SpecWatcher == InitWatcher /\ [][NextWatcher]_vars

\* The scheduler runs every goroutine that can take a step; the tools and
\* the caller's decisions to call a method are under no obligation.
FairSpecWatcher ==
    /\ SpecWatcher
    /\ WF_vars(MainStep)
    /\ WF_vars(WatchLoopStep)
    /\ WF_vars(TailLoopStep)

\* A select whose stopCh case is ready again and again takes it in the end:
\* select chooses among its ready cases at random.
FairSpecWatcherStop ==
    /\ FairSpecWatcher
    /\ SF_vars(WatchLoopStop)
    /\ SF_vars(TailLoopStop)

-----------------------------------------------------------------------------
(* One daemon writes its status file while GetStatus is called from outside *)

InitStatus ==
    /\ InitStatusVars /\ InitLogVars /\ InitDaemonVars /\ InitPidVars /\ InitWatcherVars
    /\ InitFilterVars
    /\ InitConfigVars
    /\ InitSnapshotVars
    /\ InitShutdownVars
    /\ InitHandleVars
    /\ InitLifeVars
    /\ InitIterVars
    /\ follow = FALSE

NextStatus ==
    \/ StatusMarshal
    \/ StatusOpen
    \/ StatusWrite
    \/ StatusRename
    \/ StatusRemove
    \/ GetStatusOpen
    \/ GetStatusRead

SpecStatus == InitStatus /\ [][NextStatus]_vars

-----------------------------------------------------------------------------
(* One line goes through FilteredStream's wrapped handler *)

InitFilter ==
    /\ InitLogVars /\ InitDaemonVars /\ InitPidVars /\ InitWatcherVars /\ InitStatusVars
    /\ InitFilterVars
    /\ InitConfigVars
    /\ InitSnapshotVars
    /\ InitShutdownVars
    /\ InitHandleVars
    /\ InitLifeVars
    /\ InitIterVars
    /\ follow = FALSE

NextFilter ==
    \/ FilteredStreamCall
    \/ FilteredHandler

SpecFilter == InitFilter /\ [][NextFilter]_vars

-----------------------------------------------------------------------------
(* Two iterators are made over one directory and read to the end *)

InitIterate ==
    /\ InitLogVars /\ InitDaemonVars /\ InitPidVars /\ InitWatcherVars /\ InitStatusVars
    /\ InitFilterVars
    /\ InitConfigVars
    /\ InitSnapshotVars
    /\ InitShutdownVars
    /\ InitHandleVars
    /\ InitLifeVars
    /\ InitIterVars
    /\ follow = FALSE

NextIterate ==
    \/ PopulateDirectory
    \/ \E i \in Iterators : NewShardIterator(i)
    \/ \E i \in Iterators : Next(i)

SpecIterate == InitIterate /\ [][NextIterate]_vars

-----------------------------------------------------------------------------
(* One daemon whose owner calls Start, Stop and Run *)

InitLife ==
    /\ InitLogVars /\ InitDaemonVars /\ InitPidVars /\ InitWatcherVars /\ InitStatusVars
    /\ InitFilterVars
    /\ InitConfigVars
    /\ InitSnapshotVars
    /\ InitShutdownVars
    /\ InitHandleVars
    /\ InitIterVars
    /\ InitLifeVars
    /\ follow = FALSE

\* The steps of a Start, Stop or Run call that is under way.
LifeCallStep ==
    \/ LifeIsRunning
    \/ LifeWritePID
    \/ LifeLaunch
    \/ LifeCancel
    \/ LifeStopWatcher
    \/ LifeWaitWatcher
    \/ LifeCloseQueue
    \/ LifeStopReturn

NextLife ==
    \/ \E run \in BOOLEAN : LifeStartCall(run)
    \/ LifeStopCall
    \/ LifeRunStop
    \/ LifeCallStep
    \/ \E t \in LoopTasks \cup WorkerTasks : LifeTaskExit(t)

SpecLife == InitLife /\ [][NextLife]_vars

\* A call that can go on does, and so does a task that can return.
FairSpecLife ==
    /\ SpecLife
    /\ WF_vars(LifeCallStep)
    /\ \A t \in LoopTasks \cup WorkerTasks : WF_vars(LifeTaskExit(t))

-----------------------------------------------------------------------------
(* Claims about the daemon *)

\* The events that are in the queue, in a worker's batch or flushed.
Held == Range(eventQueue) \cup UNION {Range(batch[k]) : k \in Workers} \cup flushed

\* C3: after Stop has returned, every event handleEvent admitted has been
\* flushed by a worker.
C3_StopDrains ==
    dpc = "returned" => \A e \in Events : ret[e] = "ok" => e \in flushed

\* C4: the dropped-event counter equals the number of rejected events, a
\* rejected event is nowhere in the pipeline, an admitted one is and was not
\* counted as dropped, and a call blocked on a full queue can always time out.
C4_DroppedCountsRejected ==
    /\ metrics.dropped = Cardinality({e \in Events : ret[e] = "full"})
    /\ \A e \in Events : ret[e] = "full" => e \notin Held
    /\ \A e \in Events : ret[e] = "ok" => e \in Held
    /\ \A g \in Producers : hpc[g] = "blocked" => ENABLED HandleTimeout(g)

\* C4 witness: the queue is full, one call has timed out and been counted
\* and another event was admitted.
C4_Witness ==
    /\ Len(eventQueue) = QueueCap
    /\ metrics.dropped >= 1
    /\ \E e \in Events : ret[e] = "full"
    /\ \E e \in Events : ret[e] = "ok"

-----------------------------------------------------------------------------
(* Claims about the PID file *)

\* The daemons that are past a successful Start and still run.
Running == {d \in Daemons : startpc[d] = "running" /\ d \in alive}

\* C7: at most one daemon instance is past a successful Start at a time.
C7_SingleInstance == Cardinality(Running) <= 1

-----------------------------------------------------------------------------
(* Claims about the watcher *)

\* The path p is tracked: w.activeSessions holds a tail for it.
Tracked(p) == activeSessions[p] # NoTail

\* The complete lines of a file, in file order.
RECURSIVE CompleteLines(_)
CompleteLines(data) ==
    IF HasNL(data)
    THEN <<Take(data, FirstNL(data))>> \o CompleteLines(Drop(data, FirstNL(data)))
    ELSE <<>>

\* The lines of the message events the handlers received for p, in order.
Messages(p) ==
    LET mine == SelectSeq(events, LAMBDA e : e.type = "message" /\ e.path = p)
    IN [i \in 1..Len(mine) |-> mine[i].line]

\* The handlers received an event of the given type for p.
Received(type, p) == \E i \in 1..Len(events) : events[i].type = type /\ events[i].path = p

\* C5: the message events of a file are its complete lines, each once and in
\* file order, the backlog first; and every complete line of a tracked file,
\* whether it was there when the file was first watched or was appended
\* later, is eventually delivered as a message event.
C5_BacklogThenEachLineOnce ==
    /\ [](\A p \in Paths :
             LET m == Messages(p)
                 c == CompleteLines(files[p].data)
             IN Len(m) <= Len(c) /\ m = Take(c, Len(m)))
    /\ \A p \in Paths : \A k \in 1..MaxAppends :
           (Tracked(p) /\ Len(CompleteLines(files[p].data)) >= k)
               ~> (Len(Messages(p)) >= k)

\* C8: a WatchDirectory call whose scan matched at least one file returns,
\* and then the directory is registered and every matched file that still
\* exists is tracked.
C8_WatchDirectoryReturns ==
    (gpc["main"] = "wd_scan" /\ matched # {})
        ~> ( /\ gpc["main"] = "idle"
             /\ watchedPaths
             /\ \A p \in matched : files[p].state = "present" => Tracked(p) )

\* C9: no path has two tails or two session_start events, every
\* startTailing call that has taken w.mu returns, and every path that
\* becomes tracked has its session_start event delivered to the handlers.
C9_StartTailingIdempotent ==
    /\ [](\A p \in Paths :
             /\ Cardinality({i \in DOMAIN tails : tails[i].path = p}) <= 1
             /\ Cardinality({i \in DOMAIN events :
                    events[i] = SessionStart(p)}) <= 1)
    /\ \A g \in {"main", "watchLoop"} :
           (gpc[g] = "st_open") ~> (gpc[g] = Caller(g))
    /\ \A p \in Paths : Tracked(p) ~> Received("session_start", p)

\* C10: a remove notification for a tracked path is followed by the path
\* leaving the tracked set and by its session_end event, and the watch loop
\* is back at its select; no session_end is delivered for a path that was
\* never tracked.
C10_RemoveEndsSession ==
    /\ [](\A p \in Paths :
             Received("session_end", p) => \E i \in DOMAIN tails : tails[i].path = p)
    /\ \A p \in Paths :
           (Tracked(p) /\ \E i \in DOMAIN fsEvents : fsEvents[i] = [op |-> "remove", name |-> p])
               ~> ( /\ ~Tracked(p)
                    /\ Received("session_end", p)
                    /\ gpc["watchLoop"] \in {"wl_select", "exited"} )

\* C11: a second WatchDirectory call made while a file of the directory is
\* already tailed returns, and no path ever has more than one tail or more
\* than one session_start event.
C11_SecondScanChangesNothing ==
    /\ [](\A p \in Paths :
             /\ Cardinality({i \in DOMAIN tails : tails[i].path = p /\ ~tails[i].closed}) <= 1
             /\ Cardinality({i \in DOMAIN events :
                    events[i].type = "session_start" /\ events[i].path = p}) <= 1)
    /\ \A p \in Paths :
           (nScans >= 2 /\ gpc["main"] = "wd_lock" /\ Tracked(p))
               ~> (gpc["main"] = "idle" /\ nScans >= 2)

\* C12: while a file is tracked the polling loop gets through the RLock of
\* checkAllSessions, and every
\* complete line of a file that stays tracked is eventually delivered as a
\* message event, whether or not a write notification is received.
C12_PollDeliversAppendedLines ==
    /\ (gpc["tailLoop"] = "cs_rlock" /\ \E p \in Paths : Tracked(p))
           ~> (gpc["tailLoop"] = "cs_loop")
    /\ \A p \in Paths : \A k \in 1..MaxAppends :
           (Tracked(p) /\ Len(CompleteLines(files[p].data)) >= k)
               ~> (~Tracked(p) \/ Len(Messages(p)) >= k)

-----------------------------------------------------------------------------
(* Claims about concurrent writers *)

\* The writers that are between Lock and Unlock of WriteRawLine.
InWrite == {w \in Writers : wpc[w] \in {"rotateClose", "rotateCreate", "write"}}

\* C13: at most one call is inside WriteRawLine's critical section and it
\* holds the mutex; while it does, the background flush and Close cannot
\* run, and every change of the shard files or of the current shard is a
\* step of that call, so the bytes of its line go to one shard unbroken.
C13_WritesSerialized ==
    /\ [](/\ Cardinality(InWrite) <= 1
          /\ \A w \in Writers : w \in InWrite <=> rotationMutex = w
          /\ InWrite # {} => ~ENABLED BackgroundFlush /\ ~ENABLED Close)
    /\ [][\A w \in Writers :
             (rotationMutex = w /\ <<disk, currentShard, shardFiles>>' #
                                   <<disk, currentShard, shardFiles>>)
                 => wpc'[w] # wpc[w]]_vars

\* One worker is rotating while the other has a marshalled event waiting
\* for the mutex, after a line was written.
C13_Witness ==
    /\ wpc["w1"] = "rotateCreate"
    /\ wpc["w2"] = "event"
    /\ Len(written) >= 1

\* The bytes the specification has WriteRawLine(b) add: b with one newline
\* at its end, appended when b does not end in one.
LineWithOneNewline(b) ==
    IF Len(b) > 0 /\ b[Len(b)] = NL THEN b ELSE Append(b, NL)

\* C14: the step in which WriteRawLine(b) writes makes the current shard's
\* content (file and buffer) grow by b, followed by a newline unless b ends
\* in one already, for every b, the empty one included.
C14_WriteAddsOneLine ==
    [][\A w \in Writers :
          (wpc[w] = "write" /\ wpc'[w] = "idle")
              => ShardBytes(currentShard.path)' =
                     ShardBytes(currentShard.path) \o LineWithOneNewline(wline[w])]_vars

\* C15: every record WriteEvent wrote carries, as _audit_shard, the name of
\* the shard it was written to.
C15_AuditShardIsStorageShard ==
    \A i \in 1..Len(written) :
        written[i].meta # NoShard => written[i].meta = written[i].shard

\* The i-th accepted line can be read from the file of the shard it was
\* written to.
Readable(i) ==
    /\ i <= Len(written)
    /\ LET l == written[i].line
           d == disk[written[i].shard]
       IN \/ l = <<>>
          \/ \E j \in 1..Len(d) :
                 j + Len(l) - 1 <= Len(d) /\ SubSeq(d, j, j + Len(l) - 1) = l

\* C16: once WriteRawLine has returned for a line and no other call is
\* under way, the line becomes readable from its shard file, with nothing
\* but the background flush needed to get it there.
C16_FlushMakesDurable ==
    \A i \in 1..MaxWrites :
        (Len(written) = i /\ InWrite = {}) ~> Readable(i)

\* The only line written so far sat in the buffer of the first shard and has
\* reached the file while the logger is still open.
C16_Witness ==
    /\ Len(written) = 1
    /\ Len(created) = 1
    /\ logger = "open"
    /\ InWrite = {}
    /\ written[1].line # <<>>
    /\ currentShard.buf = <<>>
    /\ Readable(1)

\* A complete status document.
CompleteStatus(d) == \E k \in 1..MaxStatusWrites : d = StatusDoc(k)

\* C17: whatever GetStatus has read or is about to read from the file it
\* opened is no status file or one complete status document.
C17_StatusNeverPartial ==
    /\ \A r \in gsSeen : r.status = "stopped" \/ CompleteStatus(r.data)
    /\ gspc = "read" => CompleteStatus(inodes[gsfd])

\* GetStatus has the status file open while the writer is half-way through
\* the next document.
C17_Witness ==
    /\ gspc = "read"
    /\ stpc = "write"
    /\ Len(inodes[stfd]) = 1
    /\ nStatus >= 2

-----------------------------------------------------------------------------
(* Claims about Stream's errors and Stop *)

\* The positions of Stream inside followNewEntries.
TailPcs == {"follow", "waitFirst", "tailOpen", "tailWait", "tailRead", "tailEOF"}

\* C18: the first handler error, in the history loop or in the tail loop,
\* makes Stream return it and the handler is not called again; with
\* follow = false Stream never enters the live tail and, when no handler
\* call failed, returns nil once the iterator is past its last shard.
C18_HandlerErrorAborts ==
    /\ [](handlerErrs >= 1 => spc = "handlerError" /\ handlerErrs = 1)
    /\ [][spc = "handlerError" => spc' = spc /\ delivered' = delivered]_vars
    /\ [](~follow => spc \notin TailPcs /\ tailed = <<>>)
    /\ []((~follow /\ spc = "returned") =>
              handlerErrs = 0 /\ itIdx >= Len(itShards) /\ rdPath = NoShard)

\* Stream has returned the handler's error from the live tail, after the
\* handler had taken an earlier line.
C18_Witness ==
    /\ spc = "handlerError"
    /\ Len(tailed) >= 1
    /\ Len(delivered) >= 2

C20_UnparsedLinesForwarded ==
    (fpc = "done" /\ UnmarshalFails(fline)) => fout = [called |-> TRUE, line |-> fline]

\* A line that is not JSON went through a filter with every criterion set.
C20_Witness ==
    /\ fpc = "done"
    /\ fline.kind = "invalid"
    /\ ffilter.SessionID # ""
    /\ ffilter.Tool # ""
    /\ ffilter.StartTime # NoTime
    /\ ffilter.EndTime # NoTime
    /\ fout.called

-----------------------------------------------------------------------------
(* Claims about the filter's criteria *)

\* The line is a record whose session id, tool and timestamp meet every
\* criterion the filter sets.
MeetsFilter(filter, line) ==
    /\ filter.SessionID # "" => line.session = filter.SessionID
    /\ filter.Tool # "" => line.tool = filter.Tool
    /\ filter.StartTime # NoTime =>
           IsNumber(line.timestamp) /\ line.timestamp.unix >= filter.StartTime
    /\ filter.EndTime # NoTime =>
           IsNumber(line.timestamp) /\ line.timestamp.unix <= filter.EndTime

\* The filter that sets no criterion.
EmptyFilter == [SessionID |-> "", Tool |-> "", StartTime |-> NoTime, EndTime |-> NoTime]

\* C21: a line the wrapped handler forwards does not parse or is a record
\* that meets every criterion set in the filter, and under the empty filter
\* every line is forwarded.
C21_ForwardedMeetsFilter ==
    fpc = "done" =>
        /\ fout.called => UnmarshalFails(fline) \/ MeetsFilter(ffilter, fline)
        /\ ffilter = EmptyFilter => fout = [called |-> TRUE, line |-> fline]

-----------------------------------------------------------------------------
(* Claims about the iterator *)

\* The lines of the shard files, shard after shard in the order of their
\* names, each shard's lines in file order.
RECURSIVE LinesInOrder(_)
LinesInOrder(names) ==
    IF names = <<>> THEN <<>>
    ELSE CompleteLines(disk[Head(names)]) \o LinesInOrder(Tail(names))

\* C22: what an iterator has returned is a prefix of the lines of the
\* shards in name order; once it has signalled end-of-stream it has returned
\* them all, and every further call signals end-of-stream again and returns
\* no line; so two iterators that reached the end returned the same sequence.
C22_IteratorReplaysInOrder ==
    /\ [](\A i \in Iterators :
             LET all == LinesInOrder(SortedSeq(shardFiles))
             IN /\ Len(itOut[i]) <= Len(all)
                /\ itOut[i] = Take(all, Len(itOut[i]))
                /\ itEofs[i] >= 1 => itOut[i] = all)
    /\ [][\A i \in Iterators :
             (itEofs[i] >= 1 /\ iters'[i] # iters[i])
                 => (itEofs'[i] = itEofs[i] + 1 /\ itOut'[i] = itOut[i])]_vars
    /\ []((\A i \in Iterators : itEofs[i] >= 1) => itOut[1] = itOut[2])

\* Both iterators went through three shards with lines in each, one of them
\* ending in bytes without a newline, and the first iterator was called
\* again after it had signalled end-of-stream.
C22_Witness ==
    /\ Cardinality(shardFiles) >= 3
    /\ \A n \in shardFiles : Len(CompleteLines(disk[n])) >= 1
    /\ \E n \in shardFiles : Len(disk[n]) > 0 /\ disk[n][Len(disk[n])] # NL
    /\ itEofs[1] >= 2
    /\ itEofs[2] >= 1
    /\ Len(itOut[2]) >= 3

-----------------------------------------------------------------------------
(* Claims about dropped events *)

\* C23: the step in which handleEvent drops an event for want of room in
\* the queue returns nil to the watcher and changes nothing but the
\* dropped-event counter.
C23_DropReturnsNoError ==
    [][\A g \in Producers :
          (hpc[g] = "blocked" /\ metrics'.dropped = metrics.dropped + 1)
              => /\ ret'[hev[g]] = "ok"
                 /\ metrics'.received = metrics.received
                 /\ metrics'.processed = metrics.processed
                 /\ eventQueue' = eventQueue]_vars

-----------------------------------------------------------------------------
(* Claims about the daemon's lifecycle *)

\* The lifecycle steps: the chain of the specification, and Stop called on a
\* daemon that is not running, which has nothing to stop.
LifecycleSteps ==
    {<<"Stopped", "Starting">>, <<"Starting", "Running">>, <<"Running", "Stopping">>,
     <<"Stopping", "Stopped">>, <<"Stopped", "Stopping">>}

\* C24: the lifecycle state changes only along Stopped, Starting, Running,
\* Stopping, Stopped; tasks and the PID file exist only from Start to the
\* end of Stop; a Start while Running is refused and changes nothing; and
\* every Stop that has begun ends with the daemon Stopped.
C24_LifecycleChain ==
    /\ [][lstate' # lstate => <<lstate, lstate'>> \in LifecycleSteps]_vars
    /\ [](lstate = "Stopped" => lrunning = {} /\ ~lpid)
    /\ [][(lpc = "isRunning" /\ lpc' # lpc /\ lstate = "Running")
              => (lpc' = "idle" /\ UNCHANGED <<lstate, lpid, lrunning>>)]_vars
    /\ (lstate = "Stopping") ~> (lstate = "Stopped")

-----------------------------------------------------------------------------
(* Claims about the workers' batches *)

\* The number of times flushBatch has written the event e.
TimesFlushed(e) == Cardinality({i \in DOMAIN flushLog : flushLog[i].event = e})

\* The events that have left the queue: admitted and no longer in it.
Dequeued == {e \in Events : ret[e] = "ok" /\ e \notin Range(eventQueue)}

\* C25: a running worker's pending batch is shorter than the batch size (a
\* batch that reaches it is flushed at once) and none of its events has been
\* flushed; the ticker can flush any non-empty pending batch; a worker that
\* has left flushed what it held; and every dequeued event is pending in
\* one batch or flushed, and no event is flushed more than once.
C25_BatchFlushedOnce ==
    /\ \A k \in Workers :
           /\ Len(batch[k]) <= BatchSize
           /\ wkpc[k] = "run" =>
                  /\ Len(batch[k]) < BatchSize
                  /\ Range(batch[k]) \cap flushed = {}
                  /\ Len(batch[k]) > 0 => ENABLED WorkerTick(k)
           /\ wkpc[k] = "exited" => Range(batch[k]) \subseteq flushed
    /\ \A e \in Events : TimesFlushed(e) <= 1
    /\ \A e \in Dequeued :
           /\ Cardinality({k \in Workers : e \in Range(batch[k])}) = 1 \/ e \in flushed
           /\ e \in flushed => TimesFlushed(e) = 1

\* One worker flushed a full batch, the ticker flushed another worker's
\* shorter batch, and Stop has returned with every worker gone.
C25_Witness ==
    /\ \E i \in DOMAIN flushLog : flushLog[i].by = "full"
    /\ \E i \in DOMAIN flushLog : flushLog[i].by = "tick"
    /\ \A k \in Workers : wkpc[k] = "exited"
    /\ dpc = "returned"

-----------------------------------------------------------------------------
(* Claims about the live tail *)

\* Stream has returned, with nil or with the handler's error.
StreamOver == spc \in {"returned", "handlerError"}

\* The line of the i-th accepted write has been handed to the handler.
Delivered(i) ==
    i <= Len(written) /\ \E p \in 1..Len(delivered) : delivered[p] = written[i].line

\* The live tail has opened the shard of the i-th accepted write.
Tailed(i) ==
    i <= Len(written) /\ \E t \in 1..Len(tailed) : tailed[t] = written[i].shard

\* The i-th accepted write put a non-empty line into a shard that was
\* created after the live tail had looked up its first shard.
WrittenToNewShard(i) ==
    /\ i <= Len(written)
    /\ written[i].line # <<>>
    /\ Len(tailed) >= 1
    /\ written[i].shard > tailed[1]

\* C26: no shard is skipped: every shard that was created after the live
\* tail began and holds a line is eventually opened by the tail, as long as
\* Stream is running (stated for runs whose shards have distinct names).
C26_NoShardSkipped ==
    \A i \in 1..MaxWrites :
        WrittenToNewShard(i) ~> (StreamOver \/ ~NamesDistinct \/ Tailed(i))

\* C27: a line that can be read from its shard file while Stream is in its
\* history replay (it was there when Stream was called, or the writer made
\* it visible during the replay) is eventually handed to the handler, as
\* long as Stream is running (stated for runs whose shards have distinct
\* names).
C27_ReplayedAtLeastOnce ==
    \A i \in 1..MaxWrites :
        (spc = "history" /\ Readable(i) /\ written[i].line # <<>>)
            ~> (StreamOver \/ ~NamesDistinct \/ Delivered(i))

\* The offset off of a file with the bytes data is the start of the file or
\* follows a newline.
LineBoundary(data, off) == off = 0 \/ (off <= Len(data) /\ data[off] = NL)

\* C28: the last-read offset of the tail of every tracked file that is
\* present (session files are only appended to) is at most the size of the
\* file and lies on a line boundary.
C28_OffsetOnLineBoundary ==
    \A p \in Paths :
        (Tracked(p) /\ files[p].state = "present") =>
            LET off == tails[activeSessions[p]].LastOffset
            IN /\ off <= Len(files[p].data)
               /\ LineBoundary(files[p].data, off)

\* The shard files that have been closed: every shard but the one the logger
\* has open.
ClosedShards == {n \in shardFiles : n # currentShard.path \/ currentShard.closed}

\* C29: a step that creates a shard gives it a name that no shard has and
\* that sorts after the name of every shard, and no step changes the bytes
\* of a closed shard.
C29_RotationNeverReusesAName ==
    [][/\ (created' # created) =>
              /\ currentShard'.path \notin shardFiles
              /\ \A n \in shardFiles : n < currentShard'.path
       /\ \A n \in ClosedShards : disk'[n] = disk[n]]_vars

\* C30: at most one shard file is open for writing.
C30_OneShardOpen == Cardinality(openShards) <= 1

\* A second shard is open after a rotation, its writer holds the error of a
\* failed flush, and the logger has been closed.
C30_Witness ==
    /\ Len(created) >= 2
    /\ openShards = {Len(created)}
    /\ writerErr
    /\ logger = "closed"

\* C31: once the watcher's Stop, which the daemon's Stop calls, has closed
\* stopCh on a watcher whose loops were started, the two loops end and Stop
\* goes on to close the files and return.
C31_StopReturns ==
    (stopCh /\ gpc["watchLoop"] # "unstarted")
        ~> ( /\ gpc["main"] = "stopped"
             /\ gpc["watchLoop"] = "exited"
             /\ gpc["tailLoop"] = "exited" )

-----------------------------------------------------------------------------
(* Claims about the daemon's shutdown *)

\* C32: when Stop closes the logger every worker has exited, and no step
\* taken after that writes an event to the logger.
C32_LoggerClosedAfterWorkers ==
    /\ [](loggerClosed => \A k \in Workers : wkpc[k] = "exited")
    /\ [][flushLog' # flushLog => ~loggerClosed]_vars

\* Stop has closed the logger after a worker flushed its pending batch on
\* its way out.
C32_Witness ==
    /\ loggerClosed
    /\ \E i \in DOMAIN flushLog : flushLog[i].by = "shutdown"

-----------------------------------------------------------------------------
(* Claims about a second instance *)

\* The first process runs a started daemon whose logger is open, and the PID
\* file names it.
FirstInstanceRuns ==
    /\ startpc[1] = "running"
    /\ logger = "open"
    /\ IsRunning
    /\ pidFile.pid = 1

\* C33: while the first instance runs, no step of the second process's
\* attempt (constructing the daemon, Start) changes the PID file, the set
\* of shard files or the bytes of a shard file, and its Start is refused.
C33_SecondStartLeavesFiles ==
    [][(startpc'[2] # startpc[2] /\ FirstInstanceRuns) =>
          /\ pidFile' = pidFile
          /\ shardFiles' = shardFiles
          /\ disk' = disk
          /\ startpc[2] = "start" => startpc'[2] = "refused"]_vars

\* The entries of the flush log whose audit record was written.
RecordsWritten == {i \in DOMAIN flushLog : flushLog[i].rec = "nil"}

\* C34: every event that has left the queue and is not pending in a batch
\* has had its writes attempted, whatever the writes of the events before
\* it returned; a flush of a full batch or by the ticker leaves the worker
\* running; and the processed counter is the number of events whose audit
\* record was written.
C34_FailedWriteDoesNotAbort ==
    /\ [](\A e \in Dequeued :
             \/ \E k \in Workers : wkpc[k] = "run" /\ e \in Range(batch[k])
             \/ TimesFlushed(e) = 1)
    /\ [](metrics.processed = Cardinality(RecordsWritten))
    /\ [][\A k \in Workers :
             (wkpc[k] = "run" /\ wkpc'[k] = "exited") => (ctxDone \/ queueClosed)]_vars

\* A batch of two events was flushed in which a write for the first event
\* failed, and the worker that flushed it is still running.
C34_Witness ==
    /\ \E i \in DOMAIN flushLog :
           /\ i < Len(flushLog)
           /\ flushLog[i].by = "full"
           /\ flushLog[i + 1].by = "full"
           /\ flushLog[i].rec = "err"
           /\ flushLog[i + 1].rec = "nil"
    /\ \A k \in Workers : wkpc[k] = "run"
    /\ metrics.processed = 1

-----------------------------------------------------------------------------
\* C35: the metrics of every status file are a snapshot; in particular
\* every status file satisfies processed + dropped <= received.
C35_StatusIsSnapshot ==
    \A i \in DOMAIN statusMetrics :
        statusMetrics[i].processed + statusMetrics[i].dropped <= statusMetrics[i].received

\* The counters themselves satisfy the inequality at every instant.
C35_LiveCountersConsistent ==
    metrics.processed + metrics.dropped <= metrics.received

-----------------------------------------------------------------------------
\* The session id of the first message event for path p, among the first k
\* events, whose line carries one; NoSid if there is none.
FirstSid(p, k) ==
    LET S == {j \in 1..k : /\ events[j].type = "message"
                           /\ events[j].path = p
                           /\ SessionIdOf(events[j].line) # NoSid}
    IN IF S = {} THEN NoSid
       ELSE SessionIdOf(events[CHOOSE j \in S : \A i \in S : j <= i].line)

\* C36: the first sessionId seen in a tracked file is cached and never
\* replaced; the message event of the line that first carries it, every
\* later message event of the file and its session_end event carry it.
C36_SessionIdCached ==
    /\ [](\A k \in DOMAIN events :
             (events[k].type \in {"message", "session_end"}
              /\ FirstSid(events[k].path, k) # NoSid)
                 => events[k].SessionID = FirstSid(events[k].path, k))
    /\ [][\A i \in DOMAIN tails :
             tails[i].SessionID # NoSid => tails'[i].SessionID = tails[i].SessionID]_vars

\* The part of C36 about the cache alone.
C36_CacheNeverReplaced ==
    [][\A i \in DOMAIN tails :
          tails[i].SessionID # NoSid => tails'[i].SessionID = tails[i].SessionID]_vars

-----------------------------------------------------------------------------
\* C38: for every path that becomes tracked, the session_start event is
\* delivered to the handlers before any message event for that path, the
\* message events of the file's backlog included.
C38_SessionStartFirst ==
    \A k \in DOMAIN events :
        events[k].type = "message" =>
            \E j \in 1..(k - 1) : events[j] = SessionStart(events[k].path)

-----------------------------------------------------------------------------
\* C37: one Stream(handler, true) call invokes the handler at most once for
\* each line of the log: a line delivered during history replay is not
\* delivered again when live tailing starts on the newest shard or switches
\* to a newer one.
C37_EachLineAtMostOnce ==
    follow =>
        \A i \in 1..Len(written) :
            written[i].line # <<>> =>
                Cardinality({p \in DOMAIN delivered : delivered[p] = written[i].line}) <= 1

-----------------------------------------------------------------------------
\* C40: every byte string delivered to a Stream handler, in history replay
\* and in live tail, is one complete line exactly as the writer wrote it: a
\* line that is only partly flushed when the reader reaches end-of-file is
\* later delivered whole, no fragment of it is delivered (stated for runs
\* whose shards have distinct names).
C40_OnlyWholeLines ==
    NamesDistinct =>
        \A p \in DOMAIN delivered :
            \E i \in 1..Len(written) :
                written[i].line # <<>> /\ delivered[p] = written[i].line

-----------------------------------------------------------------------------
\* The event callback of goroutine g is at its enqueue step: the select of
\* handleEvent, entered or blocked in it.
AtEnqueue(g) == hpc[g] \in {"select", "blocked"}

\* C39: in every interleaving of the daemon's Stop with the watcher's
\* notification loop, polling loop and directory scans, no event is sent to
\* the event queue after the queue has been closed: once it is closed no
\* callback is at its enqueue step and none can begin, and the queue holds
\* no event that was not in it when it was closed.
C39_NoSendAfterClose ==
    /\ [](queueClosed => \A g \in DOMAIN hpc : hpc[g] = "exited")
    /\ [][queueClosed => \A i \in DOMAIN eventQueue' :
                             \E j \in DOMAIN eventQueue : eventQueue'[i] = eventQueue[j]]_vars

\* Stop has closed the queue of a daemon whose scans and loops have all
\* delivered events.
C39_Witness ==
    /\ queueClosed
    /\ \A g \in Callers : g \in DOMAIN hev /\ hev[g] > 0
    /\ \E e \in Events : ret[e] = "ok"

=============================================================================
